---- MODULE Spec2Model ----
(***************************************************************************)
(* Boundary-tag allocator of taytwkim/parallel-malloc.                     *)
(*   my_alloc_v1.c : arenas sharded over threads, per-thread tcache        *)
(*   my_alloc_v0.c : one global arena behind one global lock               *)
(* Memory is an array of 8-byte words addressed by byte address; every     *)
(* helper is translated statement by statement and threads an explicit     *)
(* machine state s = [mem, ar, tc, fault, hang, r, path] through the       *)
(* writes; r is the value returned, path the branch taken.                 *)
(***************************************************************************)
EXTENDS Integers, FiniteSets, Sequences, TLC

\* ------------------------------------------------------------ bounds
\* MYALLOC_REGION_SIZE in 16-byte units (the source maps 64 MiB / 1 GiB).
RegionUnits == 8
\* Width of size_t in bits (the source is built for 64 bits).
SizeBits == 9
\* Largest value omp_get_max_threads() reports.
MaxCores == 2
\* Threads calling the allocator.
NThreads == 2
\* Pointers the program holds at once.
MaxLive == 2
\* Pointers the single-threaded program of my_alloc.c holds at once.
MaxLiveSeq == 3
\* Calls the program with cross-thread frees issues in all.
MaxCalls == 8
\* Calls of the longer program with cross-thread frees.
MaxLongCalls == 10
\* Scaled tcache geometry (the source has 64 bins of 32 chunks).
TCACHE_MAX_BINS == 1
TCACHE_MAX_COUNT == 1

\* ------------------------------------------------------------ constants
NULL == 0
WORD == 8
MAX_ARENAS == 64
CHUNK_FREE_BIT == 1
CHUNK_PREV_IN_USE_BIT == 2
MAP_FAILED == -1
\* getpagesize(), scaled with the region
pagesize == 16

SIZE_MOD == 2 ^ SizeBits
MYALLOC_REGION_SIZE == 16 * RegionUnits

\* (n + 15u) & ~15, in size_t arithmetic
align16(n) == (((n + 15) % SIZE_MOD) \div 16) * 16

Threads == 0 .. (NThreads - 1)
ArenaIds == 0 .. (MaxCores - 1)
Bins == 0 .. (TCACHE_MAX_BINS - 1)

\* arena_init's req: the region size rounded up to whole pages
RegionReq ==
    LET req == MYALLOC_REGION_SIZE
        ps  == pagesize
    IN IF req % ps # 0 THEN req + (ps - (req % ps)) ELSE req

\* The address space: one unmapped page at 0, then one slot per mapping.
SlotBase(k) == pagesize + k * RegionReq
Slots == 0 .. (MaxCores - 1)
TopAddr == SlotBase(MaxCores)
Addrs == { a \in pagesize .. (TopAddr - 1) : a % WORD = 0 }

\* ------------------------------------------------------------ memory
\* An address the process may touch: word aligned, inside a mapped region.
Mapped(s, p) ==
    /\ p \in Addrs
    /\ \E i \in ArenaIds : s.ar[i].base # NULL /\ s.ar[i].base <= p /\ p < s.ar[i].end

Rd(s, p) == IF p \in Addrs THEN s.mem[p] ELSE 0

\* A read of p: faults when p is not mapped.
Chk(s, p) == IF Mapped(s, p) THEN s ELSE [s EXCEPT !.fault = TRUE]

Wr(s, p, v) ==
    IF Mapped(s, p) THEN [s EXCEPT !.mem[p] = v] ELSE [s EXCEPT !.fault = TRUE]

\* Sequencing: the state v, then its continuation F.  The state is bound as
\* a value, so each write is evaluated once, in program order.
Then(v, F(_)) == CHOOSE r \in { F(x) : x \in {v} } : TRUE

\* ------------------------------------------------------------ header
get_size_from_hdr(h) == h - (h % 16)
get_free_bit_from_hdr(h) == h % 2
get_prev_from_hdr(h) == ((h \div 2) % 2) * CHUNK_PREV_IN_USE_BIT

set_prev_bit_in_hdr(s, hdr, on) ==
    LET h == Rd(s, hdr)
    IN Wr(s, hdr, IF on THEN h - get_prev_from_hdr(h) + CHUNK_PREV_IN_USE_BIT
                        ELSE h - get_prev_from_hdr(h))

build_hdr_with_free_bit(size_aligned, is_free) ==
    IF is_free THEN get_size_from_hdr(size_aligned) + CHUNK_FREE_BIT
               ELSE get_size_from_hdr(size_aligned)

set_hdr_keep_prev(s, hdr, size_aligned, is_free) ==
    LET prevb == get_prev_from_hdr(Rd(s, hdr))
    IN Wr(s, hdr, build_hdr_with_free_bit(size_aligned, is_free) + prevb)

\* set_ftr writing one chunk too far: past the next header
set_ftr_past(s, hdr, size) ==
    Wr(s, hdr + size + WORD, build_hdr_with_free_bit(size, TRUE))

set_ftr(s, hdr, size_aligned) ==
    Wr(s, hdr + size_aligned - WORD, build_hdr_with_free_bit(size_aligned, TRUE))

get_payload_from_hdr(hdr) == hdr + WORD
get_hdr_from_payload(ptr) == ptr - WORD

get_chunk_size(s, hdr) == get_size_from_hdr(Rd(s, hdr))
chunk_is_free(s, hdr) == get_free_bit_from_hdr(Rd(s, hdr)) # 0
prev_chunk_is_free(s, hdr) == get_prev_from_hdr(Rd(s, hdr)) = 0
get_next_chunk_hdr(s, hdr) == hdr + get_chunk_size(s, hdr)

set_next_chunk_hdr_prev(s, a, hdr, prev_in_use) ==
    IF get_next_chunk_hdr(s, hdr) < s.ar[a].bump
    THEN set_prev_bit_in_hdr(s, get_next_chunk_hdr(s, hdr), prev_in_use)
    ELSE s

\* sizeof(free_chunk_t): the header word and the two link words
SizeofFreeChunk == WORD + 2 * WORD

get_free_chunk_min_size == align16(align16(SizeofFreeChunk) + WORD)

\* offsets of links.fd and links.bk in free_chunk_t
FD(fc) == fc + WORD
BK(fc) == fc + 2 * WORD

\* ------------------------------------------------------------ free list
remove_from_free_list(s, a, fc) ==
    Then(Rd(s, FD(fc)), LAMBDA fd :
    Then(Rd(s, BK(fc)), LAMBDA bk :
    Then(Chk(s, FD(fc)), LAMBDA s0 :
    Then(IF bk # NULL THEN Wr(s0, FD(bk), fd) ELSE s0, LAMBDA s1 :
    Then(IF fd # NULL THEN Wr(s1, BK(fd), bk) ELSE s1, LAMBDA s2 :
    Then(IF s2.ar[a].free_list = fc
         THEN [s2 EXCEPT !.ar[a].free_list = fd] ELSE s2, LAMBDA s3 :
    Then(Wr(s3, FD(fc), NULL), LAMBDA s4 :
    Wr(s4, BK(fc), NULL))))))))

push_front_to_free_list(s, a, fc) ==
    Then(Wr(s, BK(fc), NULL), LAMBDA s1 :
    Then(Wr(s1, FD(fc), s1.ar[a].free_list), LAMBDA s2 :
    Then(IF s2.ar[a].free_list # NULL
         THEN Wr(s2, BK(s2.ar[a].free_list), fc) ELSE s2, LAMBDA s3 :
    [s3 EXCEPT !.ar[a].free_list = fc])))

\* ------------------------------------------------------------ core helpers
split_free_chunk(s, a, fc, need_total) ==
    Then(get_chunk_size(s, fc), LAMBDA csz :
    Then(get_free_chunk_min_size, LAMBDA MIN_FREE :
    IF csz >= (need_total + MIN_FREE) % SIZE_MOD
    THEN Then(remove_from_free_list(s, a, fc), LAMBDA s1 :
         Then(set_hdr_keep_prev(s1, fc, need_total, FALSE), LAMBDA s2 :
         Then(set_next_chunk_hdr_prev(s2, a, fc, TRUE), LAMBDA s3 :
         Then(fc + need_total, LAMBDA rem :
         Then(csz - need_total, LAMBDA rem_sz :
         Then(set_hdr_keep_prev(s3, rem, rem_sz, TRUE), LAMBDA s4 :
         Then(set_ftr(s4, rem, rem_sz), LAMBDA s5 :
         Then(Wr(s5, FD(rem), NULL), LAMBDA s6 :
         Then(Wr(s6, BK(rem), NULL), LAMBDA s7 :
         Then(push_front_to_free_list(s7, a, rem), LAMBDA s8 :
         [s8 EXCEPT !.r = fc, !.path = "split"]))))))))))
    ELSE Then(remove_from_free_list(s, a, fc), LAMBDA s1 :
         Then(set_hdr_keep_prev(s1, fc, csz, FALSE), LAMBDA s2 :
         Then(set_next_chunk_hdr_prev(s2, a, fc, TRUE), LAMBDA s3 :
         [s3 EXCEPT !.r = fc, !.path = "whole"])))))

\* The for loop of try_free_list: the first node from p on that is free and
\* large enough, NULL at the end of the list.  The loop has no bound of its
\* own; fuel counts the nodes a finite acyclic list can hold, and running
\* out of it means the walk never ends (HANG).
HANG == -1
ScanFuel == Cardinality(Addrs) + 1

RECURSIVE FreeListScan(_, _, _, _)
FreeListScan(s, p, need_total, fuel) ==
    IF p = NULL THEN NULL
    ELSE IF fuel = 0 THEN HANG
    ELSE IF ~Mapped(s, p) THEN p
    ELSE IF chunk_is_free(s, p) /\ get_chunk_size(s, p) >= need_total THEN p
    ELSE FreeListScan(s, Rd(s, FD(p)), need_total, fuel - 1)

try_free_list(s, a, need_total) ==
    Then(FreeListScan(s, s.ar[a].free_list, need_total, ScanFuel), LAMBDA p :
    IF p = NULL THEN [s EXCEPT !.r = NULL]
    ELSE IF p = HANG THEN [s EXCEPT !.hang = TRUE, !.r = NULL]
    ELSE IF ~Mapped(s, p) THEN [s EXCEPT !.fault = TRUE, !.r = NULL]
    ELSE split_free_chunk(s, a, p, need_total))

\* carve_from_top writing the new header before it checks the room left
carve_from_top_early(s, a, need_total) ==
    Then(((s.ar[a].bump + WORD + 15) \div 16) * 16 - WORD, LAMBDA hdr :
    Then(set_hdr_keep_prev(s, hdr, need_total, FALSE), LAMBDA s1 :
    IF (s.ar[a].end - hdr) % SIZE_MOD < need_total
    THEN [s1 EXCEPT !.r = NULL, !.path = "null"]
    ELSE Then(set_prev_bit_in_hdr(s1, hdr, TRUE), LAMBDA s2 :
         [s2 EXCEPT !.ar[a].bump = hdr + need_total, !.r = hdr, !.path = "carve"])))

carve_from_top(s, a, need_total) ==
    Then(s.ar[a].bump, LAMBDA start :
    Then(((start + WORD + 15) \div 16) * 16, LAMBDA payload :
    Then(payload - WORD, LAMBDA hdr :
    IF (s.ar[a].end - hdr) % SIZE_MOD < need_total
    THEN [s EXCEPT !.r = NULL, !.path = "null"]
    ELSE Then(set_hdr_keep_prev(s, hdr, need_total, FALSE), LAMBDA s1 :
         Then(set_prev_bit_in_hdr(s1, hdr, TRUE), LAMBDA s2 :
         [s2 EXCEPT !.ar[a].bump = hdr + need_total, !.r = hdr, !.path = "carve"])))))

\* coalesce, lines 334-343: merge with the right neighbour if it is free.
\* r carries csz on.
coalesce_right(s, a, hdr) ==
    Then(get_chunk_size(s, hdr), LAMBDA csz :
    Then(get_next_chunk_hdr(s, hdr), LAMBDA nxt :
    IF nxt < s.ar[a].bump /\ chunk_is_free(s, nxt)
    THEN Then(get_chunk_size(s, nxt), LAMBDA nxt_sz :
         Then(remove_from_free_list(Chk(s, nxt), a, nxt), LAMBDA s1 :
         Then(set_hdr_keep_prev(s1, hdr, csz + nxt_sz, TRUE), LAMBDA s2 :
         Then(set_ftr(s2, hdr, csz + nxt_sz), LAMBDA s3 :
         [s3 EXCEPT !.r = csz + nxt_sz]))))
    ELSE [(IF nxt < s.ar[a].bump THEN Chk(s, nxt) ELSE s) EXCEPT !.r = csz]))

\* coalesce never merging with the left neighbour
coalesce_left_never(s, a, hdr, csz) == [s EXCEPT !.r = hdr]

\* coalesce, lines 345-361: merge with the left neighbour if PREV_IN_USE is
\* clear and the word before the header has the FREE bit.  r is the header
\* of the merged chunk.
coalesce_left(s, a, hdr, csz) ==
    IF prev_chunk_is_free(s, hdr)
    THEN Then(Rd(s, hdr - WORD), LAMBDA prev_footer :
         Then(Chk(s, hdr - WORD), LAMBDA s1 :
         IF get_free_bit_from_hdr(prev_footer) # 0
         THEN Then(get_size_from_hdr(prev_footer), LAMBDA prev_sz :
              Then(hdr - prev_sz, LAMBDA prv :
              Then(remove_from_free_list(s1, a, prv), LAMBDA s2 :
              Then(set_hdr_keep_prev(s2, prv, csz + prev_sz, TRUE), LAMBDA s3 :
              Then(set_ftr(s3, prv, csz + prev_sz), LAMBDA s4 :
              [s4 EXCEPT !.r = prv])))))
         ELSE [s1 EXCEPT !.r = hdr]))
    ELSE [s EXCEPT !.r = hdr]

coalesce(s, a, hdr) ==
    Then(coalesce_right(s, a, hdr), LAMBDA s1 :
    coalesce_left(s1, a, hdr, s1.r))

\* ------------------------------------------------------------ tcache
size_to_tcache_bin(usable) ==
    IF usable \div 16 = 0 THEN -1
    ELSE IF usable \div 16 > TCACHE_MAX_BINS THEN -1
    ELSE (usable \div 16) - 1

\* ------------------------------------------------------------ my_alloc_v1.c
\* needed total of a request (line 376) and its tcache bin (lines 377-379)
NeedOf(size) == align16((WORD + align16(size)) % SIZE_MOD)
BinOf(need) == size_to_tcache_bin((need - WORD) % SIZE_MOD)

\* tcache_pop returning the head while leaving it on the bin
tcache_pop_keep(s, t, bin) ==
    [Chk(s, FD(s.tc[t][bin].head)) EXCEPT !.r = s.tc[t][bin].head, !.path = "tcache"]

\* my_malloc, lines 386-401: pop the head of the bin
tcache_pop(s, t, bin) ==
    Then(s.tc[t][bin].head, LAMBDA fc :
    [Chk(s, FD(fc)) EXCEPT !.tc[t][bin].head  = Rd(s, FD(fc)),
                           !.tc[t][bin].count = @ - 1,
                           !.r = fc,
                           !.path = "tcache"])

\* my_malloc, lines 404-415: the arena free list, then the frontier
arena_alloc(s, a, need) ==
    Then(try_free_list(s, a, need), LAMBDA s1 :
    IF s1.r = NULL /\ ~s1.hang /\ ~s1.fault
    THEN carve_from_top(s1, a, need)
    ELSE s1)

\* my_malloc from the size computation to the return value (lines 375-432)
my_malloc_locked(s, t, a, size) ==
    Then(NeedOf(size), LAMBDA need :
    Then(BinOf(need), LAMBDA bin :
    Then(IF bin >= 0 /\ s.tc[t][bin].head # NULL
         THEN tcache_pop(s, t, bin)
         ELSE arena_alloc(s, a, need), LAMBDA s1 :
    IF s1.r = NULL THEN s1
    ELSE [s1 EXCEPT !.r = get_payload_from_hdr(s1.r)])))

\* tcache_push counting the chunk without making it the head of the bin
tcache_push_lost(s, t, bin, hdr) ==
    [Chk(s, FD(hdr)) EXCEPT !.tc[t][bin].count = @ + 1, !.path = "push"]

\* my_free, lines 457-476: push the chunk on the bin
tcache_push(s, t, bin, hdr) ==
    [Wr(s, FD(hdr), s.tc[t][bin].head) EXCEPT
        !.tc[t][bin].head  = hdr,
        !.tc[t][bin].count = @ + 1,
        !.path = "push"]

\* the arena path of my_free linking every chunk, also one that ends at bump
arena_free_noretract(s, a, hdr, csz) ==
    Then(set_hdr_keep_prev(s, hdr, csz, TRUE), LAMBDA s1 :
    Then(set_ftr(s1, hdr, csz), LAMBDA s2 :
    Then(coalesce(s2, a, hdr), LAMBDA s3 :
    Then(s3.r, LAMBDA merged :
    Then(set_next_chunk_hdr_prev(s3, a, merged, FALSE), LAMBDA s4 :
    Then(Wr(s4, FD(merged), NULL), LAMBDA s5 :
    Then(Wr(s5, BK(merged), NULL), LAMBDA s6 :
    [push_front_to_free_list(s6, a, merged) EXCEPT !.path = "link"])))))))

\* my_free, lines 480-507: mark free, coalesce, retract the frontier or link
arena_free(s, a, hdr, csz) ==
    Then(set_hdr_keep_prev(s, hdr, csz, TRUE), LAMBDA s1 :
    Then(set_ftr(s1, hdr, csz), LAMBDA s2 :
    Then(coalesce(s2, a, hdr), LAMBDA s3 :
    Then(s3.r, LAMBDA merged :
    Then(merged + get_chunk_size(s3, merged), LAMBDA merged_end :
    Then(set_next_chunk_hdr_prev(s3, a, merged, FALSE), LAMBDA s4 :
    IF merged_end = s4.ar[a].bump
    THEN [s4 EXCEPT !.ar[a].bump = merged, !.path = "retract"]
    ELSE Then(Wr(s4, FD(merged), NULL), LAMBDA s5 :
         Then(Wr(s5, BK(merged), NULL), LAMBDA s6 :
         [push_front_to_free_list(s6, a, merged) EXCEPT !.path = "link"]))))))))

\* my_free falling through to the arena path after the tcache push
my_free_locked_through(s, t, a, ptr) ==
    Then(get_hdr_from_payload(ptr), LAMBDA hdr :
    Then(get_chunk_size(s, hdr), LAMBDA csz :
    Then(size_to_tcache_bin((csz - WORD) % SIZE_MOD), LAMBDA bin :
    Then(Chk(s, hdr), LAMBDA s0 :
    IF bin >= 0 /\ s0.tc[t][bin].count < TCACHE_MAX_COUNT
    THEN arena_free(tcache_push(s0, t, bin, hdr), a, hdr, csz)
    ELSE arena_free(s0, a, hdr, csz)))))

\* my_free from the header computation to the return (lines 450-507)
my_free_locked(s, t, a, ptr) ==
    Then(get_hdr_from_payload(ptr), LAMBDA hdr :
    Then(get_chunk_size(s, hdr), LAMBDA csz :
    Then(size_to_tcache_bin((csz - WORD) % SIZE_MOD), LAMBDA bin :
    Then(Chk(s, hdr), LAMBDA s0 :
    IF bin >= 0 /\ s0.tc[t][bin].count < TCACHE_MAX_COUNT
    THEN tcache_push(s0, t, bin, hdr)
    ELSE arena_free(s0, a, hdr, csz)))))

\* ------------------------------------------------------------ my_alloc_v0.c
\* myalloc_init, lines 79-93, given what mmap returned
myalloc_init(s, memp) ==
    IF s.ar[0].base # NULL THEN s
    ELSE IF memp = MAP_FAILED THEN s
    ELSE [s EXCEPT !.ar[0] = [base |-> memp, bump |-> memp,
                              end |-> memp + RegionReq, free_list |-> NULL]]

\* my_malloc of v0 under g_lock, lines 325-363
my_malloc_v0(s, size, memp) ==
    Then(IF s.ar[0].base = NULL THEN myalloc_init(s, memp) ELSE s, LAMBDA s0 :
    IF s0.ar[0].base = NULL THEN [s0 EXCEPT !.r = NULL, !.path = "unusable"]
    ELSE Then(arena_alloc(s0, 0, NeedOf(size)), LAMBDA s1 :
         IF s1.r = NULL THEN s1
         ELSE [s1 EXCEPT !.r = get_payload_from_hdr(s1.r)]))

\* my_free of v0 under g_lock, lines 379-408
my_free_v0(s, ptr) ==
    Then(get_hdr_from_payload(ptr), LAMBDA hdr :
    arena_free(Chk(s, hdr), 0, hdr, get_chunk_size(s, hdr)))

\* ------------------------------------------------------------ my_alloc.c
\* The single-threaded allocator: one region (index 0), no mutex, no tcache.
set_prev_in_use(s, hdr, on) ==
    LET h == Rd(s, hdr)
    IN Wr(s, hdr, IF on THEN h - get_prev_from_hdr(h) + CHUNK_PREV_IN_USE_BIT
                        ELSE h - get_prev_from_hdr(h))

get_next_chunk(s, hdr) == hdr + get_chunk_size(s, hdr)

set_prev_flag_in_next_chunk(s, hdr, prev_in_use) ==
    IF get_next_chunk(s, hdr) < s.ar[0].bump
    THEN set_prev_in_use(s, get_next_chunk(s, hdr), prev_in_use)
    ELSE s

\* get_prev_chunk_if_free: r is the header of the chunk before hdr when the
\* word before hdr carries the FREE bit, NULL otherwise
get_prev_chunk_if_free(s, hdr) ==
    IF hdr = s.ar[0].base THEN [s EXCEPT !.r = NULL]
    ELSE Then(Rd(s, hdr - WORD), LAMBDA prev_footer :
         Then(Chk(s, hdr - WORD), LAMBDA s1 :
         IF get_free_bit_from_hdr(prev_footer) = 0 THEN [s1 EXCEPT !.r = NULL]
         ELSE [s1 EXCEPT !.r = hdr - get_size_from_hdr(prev_footer)]))

split_free_chunk_seq(s, fc, need_total) ==
    Then(get_chunk_size(s, fc), LAMBDA csz :
    Then(get_free_chunk_min_size, LAMBDA MIN_FREE :
    IF csz >= (need_total + MIN_FREE) % SIZE_MOD
    THEN Then(remove_from_free_list(s, 0, fc), LAMBDA s1 :
         Then(set_hdr_keep_prev(s1, fc, need_total, FALSE), LAMBDA s2 :
         Then(set_prev_flag_in_next_chunk(s2, fc, TRUE), LAMBDA s3 :
         Then(fc + need_total, LAMBDA rem :
         Then(csz - need_total, LAMBDA rem_sz :
         Then(set_hdr_keep_prev(s3, rem, rem_sz, TRUE), LAMBDA s4 :
         Then(set_prev_in_use(s4, rem, TRUE), LAMBDA s5 :
         Then(set_ftr(s5, rem, rem_sz), LAMBDA s6 :
         Then(Wr(s6, FD(rem), NULL), LAMBDA s7 :
         Then(Wr(s7, BK(rem), NULL), LAMBDA s8 :
         Then(push_front_to_free_list(s8, 0, rem), LAMBDA s9 :
         [s9 EXCEPT !.r = fc, !.path = "split"])))))))))))
    ELSE Then(remove_from_free_list(s, 0, fc), LAMBDA s1 :
         Then(set_hdr_keep_prev(s1, fc, csz, FALSE), LAMBDA s2 :
         [s2 EXCEPT !.r = fc, !.path = "whole"]))))

try_free_list_seq(s, need_total) ==
    Then(FreeListScan(s, s.ar[0].free_list, need_total, ScanFuel), LAMBDA p :
    IF p = NULL THEN [s EXCEPT !.r = NULL]
    ELSE IF p = HANG THEN [s EXCEPT !.hang = TRUE, !.r = NULL]
    ELSE IF ~Mapped(s, p) THEN [s EXCEPT !.fault = TRUE, !.r = NULL]
    ELSE split_free_chunk_seq(s, p, need_total))

carve_from_top_seq(s, need_total) ==
    Then(s.ar[0].bump, LAMBDA start :
    Then(((start + WORD + 15) \div 16) * 16, LAMBDA payload :
    Then(payload - WORD, LAMBDA hdr :
    IF (s.ar[0].end - hdr) % SIZE_MOD < need_total
    THEN [s EXCEPT !.r = NULL, !.path = "null"]
    ELSE Then(set_hdr_keep_prev(s, hdr, need_total, FALSE), LAMBDA s1 :
         [s1 EXCEPT !.ar[0].bump = hdr + need_total, !.r = hdr, !.path = "carve"]))))

\* coalesce: right neighbour as in the locked variants, left neighbour found
\* through get_prev_chunk_if_free
coalesce_seq(s, hdr) ==
    Then(coalesce_right(s, 0, hdr), LAMBDA s1 :
    Then(s1.r, LAMBDA csz :
    Then(get_prev_chunk_if_free(s1, hdr), LAMBDA s2 :
    IF s2.r # NULL
    THEN Then(s2.r, LAMBDA prv :
         Then(get_chunk_size(s2, prv) + csz, LAMBDA total :
         Then(remove_from_free_list(Chk(s2, prv), 0, prv), LAMBDA s3 :
         Then(set_hdr_keep_prev(s3, prv, total, TRUE), LAMBDA s4 :
         Then(set_ftr(s4, prv, total), LAMBDA s5 :
         [s5 EXCEPT !.r = prv])))))
    ELSE [s2 EXCEPT !.r = hdr])))

\* my_malloc of my_alloc.c: initialisation comes first, the size test after
my_malloc_seq(s, size, memp) ==
    Then(IF s.ar[0].base = NULL THEN myalloc_init(s, memp) ELSE s, LAMBDA s0 :
    IF s0.ar[0].base = NULL THEN [s0 EXCEPT !.r = NULL, !.path = "unusable"]
    ELSE IF size = 0 THEN [s0 EXCEPT !.r = NULL, !.path = "zero"]
    ELSE Then(NeedOf(size), LAMBDA need :
         Then(try_free_list_seq(s0, need), LAMBDA s1 :
         Then(IF s1.r = NULL /\ ~s1.hang /\ ~s1.fault
              THEN carve_from_top_seq(s1, need) ELSE s1, LAMBDA s2 :
         IF s2.r = NULL THEN s2
         ELSE Then(s2.r, LAMBDA hdr :
              Then(set_hdr_keep_prev(s2, hdr, need, FALSE), LAMBDA s3 :
              Then(set_prev_flag_in_next_chunk(s3, hdr, TRUE), LAMBDA s4 :
              [s4 EXCEPT !.r = get_payload_from_hdr(hdr)])))))))

\* my_free of my_alloc.c for a non-null pointer
my_free_seq(s, ptr) ==
    Then(get_hdr_from_payload(ptr), LAMBDA hdr :
    Then(get_chunk_size(s, hdr), LAMBDA csz :
    Then(set_hdr_keep_prev(Chk(s, hdr), hdr, csz, TRUE), LAMBDA s1 :
    Then(set_ftr(s1, hdr, csz), LAMBDA s2 :
    Then(coalesce_seq(s2, hdr), LAMBDA s3 :
    Then(s3.r, LAMBDA merged :
    Then(merged + get_chunk_size(s3, merged), LAMBDA merged_end :
    Then(set_prev_flag_in_next_chunk(s3, merged, FALSE), LAMBDA s4 :
    IF merged_end = s4.ar[0].bump
    THEN [s4 EXCEPT !.ar[0].bump = merged, !.path = "retract"]
    ELSE Then(Wr(s4, FD(merged), NULL), LAMBDA s5 :
         Then(Wr(s5, BK(merged), NULL), LAMBDA s6 :
         [push_front_to_free_list(s6, 0, merged) EXCEPT !.path = "link"]))))))))))

\* ------------------------------------------------------------ state
VARIABLES
    variant,    \* which allocator is linked in: "v0", "v1", "seq" (my_alloc.c)
    mem,        \* the address space, one value per 8-byte word
    arenas,     \* g_arenas[i]: base, bump, end, free_list (v0: index 0)
    lock,       \* g_arenas[i].lock (v1), g_lock at index 0 (v0)
    g_narenas,  \* live arena count
    g_once,     \* pthread_once control: 0 fresh, 1 running, 2 done
    t_arena,    \* per thread: index of its arena, -1 while NULL
    g_tcache,   \* per thread, per bin: head and count
    pc,         \* per thread: position in the current call
    op,         \* per thread: the call in progress
    arg,        \* per thread: size (my_malloc) or ptr (my_free) of the call
    idx,        \* per thread: loop index of global_init
    ret,        \* per thread: the pointer my_malloc just returned
    last,       \* per thread: the branch its last call took
    live,       \* allocations returned and not yet passed to my_free
    issued,     \* calls the counting program has issued so far
    probe,      \* what the observing program noted at its latest calls
    fault       \* the process touched unmapped memory

vars == <<variant, mem, arenas, lock, g_narenas, g_once, t_arena, g_tcache,
          pc, op, arg, idx, ret, last, live, issued, probe, fault>>

\* lock values: a thread id when held
UNLOCKED == -1
UNINIT   == -2

ZeroArena == [base |-> NULL, bump |-> NULL, end |-> NULL, free_list |-> NULL]
EmptyBin  == [head |-> NULL, count |-> 0]

\* the machine state the helpers work on, and its write-back
St == [mem |-> mem, ar |-> arenas, tc |-> g_tcache,
       fault |-> FALSE, hang |-> FALSE, r |-> NULL, path |-> "none"]

Commit(s) ==
    /\ mem' = s.mem
    /\ arenas' = s.ar
    /\ g_tcache' = s.tc
    /\ fault' = s.fault

\* memset(p, pattern, n) as seen in a word: the fill byte 0x01 repeated
\* (two hex digits stand for the eight bytes)
Pattern == 17

\* the arena whose mapped region holds p, -1 when none does
ArenaOf(p) ==
    IF \E i \in ArenaIds : arenas[i].base # NULL /\ arenas[i].base <= p /\ p < arenas[i].end
    THEN CHOOSE i \in ArenaIds :
             arenas[i].base # NULL /\ arenas[i].base <= p /\ p < arenas[i].end
    ELSE -1

\* the observing program has noted nothing
NoProbe == [call |-> "none", t |-> -1, p |-> NULL, n |-> 0,
            via |-> "none", alone |-> FALSE,
            bump |-> NULL, list |-> <<>>, held |-> {}]

\* request sizes of the ordinary workload
ReqSizes == { 16, 64 }
\* thread 0 asks for both sizes, the other threads for the small one
ReqSizesOf(t) == IF t = 0 THEN ReqSizes ELSE { 16 }
\* sizes at which align16 wraps: SIZE_MAX and SIZE_MAX - 23
WrapSizes == { SIZE_MOD - 1, SIZE_MOD - 24 }

InitCommon ==
    /\ mem = [a \in Addrs |-> 0]
    /\ arenas = [i \in ArenaIds |-> ZeroArena]
    /\ g_narenas = 0
    /\ g_once = 0
    /\ t_arena = [t \in Threads |-> -1]
    /\ g_tcache = [t \in Threads |-> [b \in Bins |-> EmptyBin]]
    /\ pc = [t \in Threads |-> "idle"]
    /\ op = [t \in Threads |-> "none"]
    /\ arg = [t \in Threads |-> 0]
    /\ idx = [t \in Threads |-> 0]
    /\ ret = [t \in Threads |-> NULL]
    /\ last = [t \in Threads |-> "none"]
    /\ live = {}
    /\ issued = 0
    /\ probe = NoProbe
    /\ fault = FALSE

\* v1: every arena_t is zeroed static storage, its mutex not yet initialised
Init ==
    /\ InitCommon
    /\ variant = "v1"
    /\ lock = [i \in ArenaIds |-> UNINIT]

\* v0: g_lock is PTHREAD_MUTEX_INITIALIZER (line 70)
InitV0 ==
    /\ InitCommon
    /\ variant = "v0"
    /\ lock = [i \in ArenaIds |-> IF i = 0 THEN UNLOCKED ELSE UNINIT]

\* the call of thread t is over: it returns to the program
Return(t, outcome) ==
    /\ pc' = [pc EXCEPT ![t] = "idle"]
    /\ op' = [op EXCEPT ![t] = "none"]
    /\ arg' = [arg EXCEPT ![t] = 0]
    /\ last' = [last EXCEPT ![t] = outcome]

\* the call of thread t goes on at position to
Goto(t, o, x, to) ==
    /\ pc' = [pc EXCEPT ![t] = to]
    /\ op' = [op EXCEPT ![t] = o]
    /\ arg' = [arg EXCEPT ![t] = x]
    /\ last' = [last EXCEPT ![t] = "none"]

\* A pointer is passed on or freed only after its buffer was filled.
Held == { l \in live : l.f # 0 }

\* the program gives up one pointer of value p
Release(p) == live \ { CHOOSE l \in Held : l.p = p }

\* the program holds fewer than MaxLive pointers, counting those on the way
MayAllocate ==
    Cardinality(live) + Cardinality({u \in Threads : op[u] = "malloc"}) < MaxLive

\* ------------------------------------------------------------ v1 calls
\* get_my_arena binding a thread to the arena after the one of its id
get_my_arena_shifted(t) ==
    IF t_arena[t] # -1 THEN t_arena[t]
    ELSE (t + 1) % g_narenas

\* get_my_arena after pthread_once has returned (lines 126-135)
get_my_arena(t) ==
    IF t_arena[t] # -1 THEN t_arena[t]
    ELSE LET tid == t
         IN tid % g_narenas

\* the arena lookup going on to the lock without testing a->base
EnterArena_nobase(t, o, x) ==
    /\ t_arena' = [t_arena EXCEPT ![t] = get_my_arena(t)]
    /\ Goto(t, o, x, "lock")

\* From the return of pthread_once to the lock: the thread's arena is
\* looked up and its base tested (lines 368-369, 443-444).  Every value
\* read here is fixed once global_init has finished.
EnterArena(t, o, x) ==
    /\ t_arena' = [t_arena EXCEPT ![t] = get_my_arena(t)]
    /\ IF arenas[get_my_arena(t)].base = NULL
       THEN Return(t, "unusable")
       ELSE Goto(t, o, x, "lock")

\* my_malloc testing the size only after pthread_once and the arena lookup
MallocCall_late0(t, n) ==
    /\ ~fault
    /\ pc[t] = "idle"
    /\ MayAllocate
    /\ IF g_once = 2
       THEN EnterArena(t, "malloc", n)
       ELSE Goto(t, "malloc", n, "once") /\ UNCHANGED t_arena
    /\ UNCHANGED <<variant, mem, arenas, lock, g_narenas, g_once, g_tcache,
                   idx, ret, live, fault>>

\* my_malloc, lines 366-369: size 0 returns at once; otherwise
\* pthread_once either lets the caller through or makes it wait
MallocCall(t, n) ==
    /\ ~fault
    /\ pc[t] = "idle"
    /\ MayAllocate
    /\ IF n = 0
       THEN UNCHANGED <<pc, op, arg, last, t_arena>>
       ELSE IF g_once = 2
       THEN EnterArena(t, "malloc", n)
       ELSE Goto(t, "malloc", n, "once") /\ UNCHANGED t_arena
    /\ UNCHANGED <<variant, mem, arenas, lock, g_narenas, g_once, g_tcache,
                   idx, ret, live, fault>>

\* p lies outside the arena thread t is bound to
Foreign(t, p) == g_narenas > 0 /\ ArenaOf(p) # t % g_narenas

\* my_free testing the pointer only after pthread_once and the arena lookup
FreeCall_late0(t, p) ==
    /\ ~fault
    /\ pc[t] = "idle"
    /\ live' = IF p = NULL THEN live ELSE Release(p)
    /\ IF g_once = 2
       THEN EnterArena(t, "free", p)
       ELSE Goto(t, "free", p, "once") /\ UNCHANGED t_arena
    /\ UNCHANGED <<variant, mem, arenas, lock, g_narenas, g_once, g_tcache,
                   idx, ret, fault>>

\* my_free, lines 441-444: the program hands over a pointer it holds, or
\* NULL; from here on the pointer is no longer a live allocation
FreeCall(t, p) ==
    /\ ~fault
    /\ pc[t] = "idle"
    /\ IF p = NULL
       THEN UNCHANGED <<pc, op, arg, last, live, t_arena>>
       ELSE /\ live' = Release(p)
            /\ IF g_once = 2
               THEN EnterArena(t, "free", p)
               ELSE Goto(t, "free", p, "once") /\ UNCHANGED t_arena
    /\ UNCHANGED <<variant, mem, arenas, lock, g_narenas, g_once, g_tcache,
                   idx, ret, fault>>

\* a once guard that tests "not done" instead of "fresh"
OnceMayRun_racy == g_once # 2

\* pthread_once lets a caller run the routine when the control is fresh
OnceMayRun == g_once = 0

\* pthread_once finds the control fresh: this thread runs global_init.
\* Lines 109-115: the arena count is the parallelism hint clamped to
\* [1, MAX_ARENAS].
OnceBegin(t) ==
    /\ ~fault
    /\ pc[t] = "once"
    /\ OnceMayRun
    /\ g_once' = 1
    /\ \E ncores \in 0 .. MaxCores :
         LET n1 == IF ncores < 1 THEN 1 ELSE ncores
         IN g_narenas' = IF n1 > MAX_ARENAS THEN MAX_ARENAS ELSE n1
    /\ pc' = [pc EXCEPT ![t] = "ginit"]
    /\ idx' = [idx EXCEPT ![t] = 0]
    /\ UNCHANGED <<variant, mem, arenas, lock, t_arena, g_tcache, op, arg, ret,
                   last, live, fault, issued, probe>>

\* what mmap may return: any slot no mapping occupies, or MAP_FAILED
MmapResults ==
    { SlotBase(k) : k \in { j \in Slots : \A i \in ArenaIds : arenas[i].base # SlotBase(j) } }
        \cup { MAP_FAILED }

\* arena_init on the arena_t that global_init has just zeroed
arena_init(a, memp) ==
    IF memp = MAP_FAILED
    THEN /\ arenas' = [arenas EXCEPT ![a] = ZeroArena]
         /\ lock' = [lock EXCEPT ![a] = UNINIT]
    ELSE /\ arenas' = [arenas EXCEPT ![a] =
                [base |-> memp, bump |-> memp, end |-> memp + RegionReq,
                 free_list |-> NULL]]
         /\ lock' = [lock EXCEPT ![a] = UNLOCKED]

\* one turn of global_init's loop (lines 117-120); after the last arena
\* pthread_once marks the control done
GlobalInitStep(t) ==
    /\ ~fault
    /\ pc[t] = "ginit"
    /\ idx[t] < g_narenas
    /\ \E memp \in MmapResults : arena_init(idx[t], memp)
    /\ IF idx[t] + 1 = g_narenas
       THEN /\ g_once' = 2
            /\ pc' = [pc EXCEPT ![t] = "once"]
            /\ idx' = [idx EXCEPT ![t] = 0]
       ELSE /\ idx' = [idx EXCEPT ![t] = idx[t] + 1]
            /\ UNCHANGED <<g_once, pc>>
    /\ UNCHANGED <<variant, mem, g_narenas, t_arena, g_tcache, op, arg, ret,
                   last, live, fault, issued, probe>>

\* pthread_once returns to a caller that ran or awaited global_init
GetMyArena(t) ==
    /\ ~fault
    /\ pc[t] = "once"
    /\ g_once = 2
    /\ EnterArena(t, op[t], arg[t])
    /\ UNCHANGED <<variant, mem, arenas, lock, g_narenas, g_once, g_tcache, idx,
                   ret, live, fault, issued, probe>>

\* the mutex the caller locks: its own arena's (lines 371, 446)
LockOf(t) == t_arena[t]

\* pthread_mutex_lock
Lock(t) ==
    /\ ~fault
    /\ pc[t] = "lock"
    /\ lock[LockOf(t)] \in {UNLOCKED, UNINIT}
    /\ IF lock[LockOf(t)] = UNINIT
       THEN fault' = TRUE /\ UNCHANGED <<lock, pc>>
       ELSE /\ lock' = [lock EXCEPT ![LockOf(t)] = t]
            /\ pc' = [pc EXCEPT ![t] = "body"]
            /\ UNCHANGED fault
    /\ UNCHANGED <<variant, mem, arenas, g_narenas, g_once, t_arena, g_tcache,
                   op, arg, idx, ret, last, live, issued, probe>>

\* my_malloc returning on a path that misses its unlock
MallocUnlock_kept(t, a) == lock

\* the lock word after my_malloc's pthread_mutex_unlock (lines 413, 436)
MallocUnlock(t, a) == [lock EXCEPT ![a] = UNLOCKED]

\* what my_malloc's return does to the program: a non-null pointer is a new
\* live allocation, which the caller fills next
MallocReturn(t, s) ==
    /\ op' = [op EXCEPT ![t] = "none"]
    /\ arg' = [arg EXCEPT ![t] = 0]
    /\ ret' = [ret EXCEPT ![t] = s.r]
    /\ last' = [last EXCEPT ![t] = s.path]
    /\ pc' = [pc EXCEPT ![t] = IF s.r = NULL THEN "idle" ELSE "fill"]
    /\ live' = IF s.r = NULL THEN live
               ELSE live \cup {[p |-> s.r, n |-> arg[t], f |-> 0, by |-> t]}

\* the call cannot go on: it spins in the list walk or the process dies
Stuck(t) ==
    /\ pc' = [pc EXCEPT ![t] = "hang"]
    /\ UNCHANGED <<lock, op, arg, ret, last, live>>

\* my_malloc lines 375-437, under the lock, to the unlock and the return
MallocBody(t) ==
    /\ ~fault
    /\ pc[t] = "body"
    /\ op[t] = "malloc"
    /\ LET s == my_malloc_locked(St, t, t_arena[t], arg[t])
       IN /\ Commit(s)
          /\ IF s.hang \/ s.fault
             THEN Stuck(t)
             ELSE /\ lock' = MallocUnlock(t, t_arena[t])
                  /\ MallocReturn(t, s)
    /\ UNCHANGED <<variant, g_narenas, g_once, t_arena, idx, issued, probe>>

\* my_free returning on a path that misses its unlock
FreeUnlock_kept(t, a) == lock

\* the lock word after my_free's pthread_mutex_unlock (lines 473, 497, 507)
FreeUnlock(t, a) == [lock EXCEPT ![a] = UNLOCKED]

\* my_free lines 450-507, under the lock, to the unlock and the return
FreeBody(t) ==
    /\ ~fault
    /\ pc[t] = "body"
    /\ op[t] = "free"
    /\ LET s == my_free_locked(St, t, t_arena[t], arg[t])
       IN /\ Commit(s)
          /\ IF s.hang \/ s.fault
             THEN Stuck(t)
             ELSE /\ lock' = FreeUnlock(t, t_arena[t])
                  /\ Return(t, s.path)
                  /\ UNCHANGED <<ret, live>>
    /\ UNCHANGED <<variant, g_narenas, g_once, t_arena, idx, issued, probe>>

\* the caller fills the buffer it was just given, as every harness does
\* (tests/test1.c line 33: memset(p, pattern, sz))
Fill(t) ==
    /\ ~fault
    /\ pc[t] = "fill"
    /\ LET l == CHOOSE x \in live : x.p = ret[t] /\ x.by = t
           words == { w \in l.p .. (l.p + l.n - 1) : w % WORD = 0 }
       IN IF \A w \in words : Mapped(St, w)
          THEN /\ mem' = [w \in Addrs |-> IF w \in words THEN Pattern ELSE mem[w]]
               /\ live' = (live \ {l}) \cup {[l EXCEPT !.f = Pattern, !.by = -1]}
               /\ pc' = [pc EXCEPT ![t] = "idle"]
               /\ ret' = [ret EXCEPT ![t] = NULL]
               /\ last' = [last EXCEPT ![t] = "none"]
               /\ UNCHANGED fault
          ELSE /\ fault' = TRUE
               /\ UNCHANGED <<mem, live, pc, ret, last>>
    /\ UNCHANGED <<variant, arenas, lock, g_narenas, g_once, t_arena, g_tcache,
                   op, arg, idx, issued, probe>>

\* ------------------------------------------------------------ v0 calls
\* my_malloc of v0, lines 319-321
V0MallocCall(t, n) ==
    /\ ~fault
    /\ pc[t] = "idle"
    /\ MayAllocate
    /\ IF n = 0
       THEN UNCHANGED <<pc, op, arg, last>>
       ELSE Goto(t, "malloc", n, "lock")
    /\ UNCHANGED <<variant, mem, arenas, lock, g_narenas, g_once, t_arena,
                   g_tcache, idx, ret, live, fault>>

\* my_free of v0, lines 373-375
V0FreeCall(t, p) ==
    /\ ~fault
    /\ pc[t] = "idle"
    /\ IF p = NULL
       THEN UNCHANGED <<pc, op, arg, last, live>>
       ELSE /\ live' = Release(p)
            /\ Goto(t, "free", p, "lock")
    /\ UNCHANGED <<variant, mem, arenas, lock, g_narenas, g_once, t_arena,
                   g_tcache, idx, ret, fault>>

\* pthread_mutex_lock(&g_lock), lines 321 and 375
V0Lock(t) ==
    /\ ~fault
    /\ pc[t] = "lock"
    /\ lock[0] = UNLOCKED
    /\ lock' = [lock EXCEPT ![0] = t]
    /\ pc' = [pc EXCEPT ![t] = "body"]
    /\ UNCHANGED <<variant, mem, arenas, g_narenas, g_once, t_arena, g_tcache,
                   op, arg, idx, ret, last, live, fault, issued, probe>>

\* the lock word after v0's pthread_mutex_unlock (lines 328, 345, 366, 403, 416)
V0Unlock(t) == [lock EXCEPT ![0] = UNLOCKED]

\* my_malloc of v0 under g_lock, to the unlock and the return
V0MallocBody(t) ==
    /\ ~fault
    /\ pc[t] = "body"
    /\ op[t] = "malloc"
    /\ \E memp \in MmapResults :
         LET s == my_malloc_v0(St, arg[t], memp)
         IN /\ Commit(s)
            /\ IF s.hang \/ s.fault
               THEN Stuck(t)
               ELSE /\ lock' = V0Unlock(t)
                    /\ MallocReturn(t, s)
    /\ UNCHANGED <<variant, g_narenas, g_once, t_arena, idx, issued, probe>>

\* my_free of v0 under g_lock, to the unlock and the return
V0FreeBody(t) ==
    /\ ~fault
    /\ pc[t] = "body"
    /\ op[t] = "free"
    /\ LET s == my_free_v0(St, arg[t])
       IN /\ Commit(s)
          /\ IF s.hang \/ s.fault
             THEN Stuck(t)
             ELSE /\ lock' = V0Unlock(t)
                  /\ Return(t, s.path)
                  /\ UNCHANGED <<ret, live>>
    /\ UNCHANGED <<variant, g_narenas, g_once, t_arena, idx, issued, probe>>

\* ------------------------------------------------------------ programs
\* the pointers thread t may free when every pointer goes back through a
\* thread bound to the arena it came from
OwnPointers(t) == { l.p : l \in { x \in Held : ~Foreign(t, x.p) } }

\* the pointers thread t may free when pointers travel between threads
AnyPointers == { l.p : l \in Held }

\* the steps inside a v1 call
Step(t) ==
    \/ OnceBegin(t)
    \/ GlobalInitStep(t)
    \/ GetMyArena(t)
    \/ Lock(t)
    \/ MallocBody(t)
    \/ FreeBody(t)
    \/ Fill(t)

\* v1, every pointer freed by a thread of its own arena
Next ==
    \E t \in Threads :
        \/ \E n \in ReqSizesOf(t) \cup {0} : MallocCall(t, n) /\ UNCHANGED <<issued, probe>>
        \/ \E p \in OwnPointers(t) \cup {NULL} : FreeCall(t, p) /\ UNCHANGED <<issued, probe>>
        \/ Step(t)

Spec == Init /\ [][Next]_vars

\* the program counts one more call
Issue ==
    /\ issued < MaxCalls
    /\ issued' = issued + 1

\* v1, any thread frees any pointer (producer and consumers of bench_c.c),
\* MaxCalls calls in all
NextCross ==
    \E t \in Threads :
        \/ \E n \in ReqSizesOf(t) \cup {0} : MallocCall(t, n) /\ Issue /\ UNCHANGED probe
        \/ \E p \in AnyPointers \cup {NULL} : FreeCall(t, p) /\ Issue /\ UNCHANGED probe
        \/ Step(t)

SpecCross == Init /\ [][NextCross]_vars

\* the longer program counts one more call
IssueLong ==
    /\ issued < MaxLongCalls
    /\ issued' = issued + 1

\* v1, any thread frees any pointer, MaxLongCalls calls in all
NextLong ==
    \E t \in Threads :
        \/ \E n \in ReqSizesOf(t) \cup {0} : MallocCall(t, n) /\ IssueLong /\ UNCHANGED probe
        \/ \E p \in AnyPointers \cup {NULL} : FreeCall(t, p) /\ IssueLong /\ UNCHANGED probe
        \/ Step(t)

SpecLong == Init /\ [][NextLong]_vars

\* v1, requests of any size_t value
NextWide ==
    \E t \in Threads :
        \/ \E n \in ReqSizesOf(t) \cup WrapSizes \cup {0} :
               MallocCall(t, n) /\ UNCHANGED <<issued, probe>>
        \/ \E p \in OwnPointers(t) \cup {NULL} : FreeCall(t, p) /\ UNCHANGED <<issued, probe>>
        \/ Step(t)

SpecWide == Init /\ [][NextWide]_vars

\* v0
NextV0 ==
    \E t \in Threads :
        \/ \E n \in ReqSizesOf(t) \cup {0} : V0MallocCall(t, n) /\ UNCHANGED <<issued, probe>>
        \/ \E p \in AnyPointers \cup {NULL} : V0FreeCall(t, p) /\ UNCHANGED <<issued, probe>>
        \/ V0Lock(t)
        \/ V0MallocBody(t)
        \/ V0FreeBody(t)
        \/ Fill(t)

SpecV0 == InitV0 /\ [][NextV0]_vars

\* both lock-protected allocators
InitBoth == Init \/ InitV0
NextBoth == (variant = "v1" /\ Next) \/ (variant = "v0" /\ NextV0)
SpecBoth == InitBoth /\ [][NextBoth]_vars

\* ------------------------------------------------------------ my_alloc.c calls
\* my_alloc.c has no mutex and is driven by one thread
SeqThreads == { 0 }

InitSeq ==
    /\ InitCommon
    /\ variant = "seq"
    /\ lock = [i \in ArenaIds |-> UNINIT]

\* my_malloc of my_alloc.c, the whole call (lines 268-310)
SeqMallocCall(t, n) ==
    /\ ~fault
    /\ pc[t] = "idle"
    /\ \E memp \in MmapResults :
         LET s == my_malloc_seq(St, n, memp)
         IN /\ Commit(s)
            /\ IF s.hang \/ s.fault
               THEN /\ pc' = [pc EXCEPT ![t] = "hang"]
                    /\ UNCHANGED <<ret, last, live>>
               ELSE /\ ret' = [ret EXCEPT ![t] = s.r]
                    /\ last' = [last EXCEPT ![t] = s.path]
                    /\ pc' = [pc EXCEPT ![t] = IF s.r = NULL THEN "idle" ELSE "fill"]
                    /\ live' = IF s.r = NULL THEN live
                               ELSE live \cup {[p |-> s.r, n |-> n, f |-> 0, by |-> t]}
    /\ UNCHANGED <<variant, lock, g_narenas, g_once, t_arena, op, arg, idx>>

\* my_malloc while the program holds fewer than MaxLive pointers
SeqMalloc(t, n) == MayAllocate /\ SeqMallocCall(t, n)

\* my_free of my_alloc.c, the whole call (lines 312-341)
SeqFree(t, p) ==
    /\ ~fault
    /\ pc[t] = "idle"
    /\ IF p = NULL
       THEN UNCHANGED <<mem, arenas, g_tcache, fault, pc, last, live>>
       ELSE /\ live' = Release(p)
            /\ LET s == my_free_seq(St, p)
               IN /\ Commit(s)
                  /\ pc' = [pc EXCEPT ![t] = IF s.hang \/ s.fault THEN "hang" ELSE "idle"]
                  /\ last' = [last EXCEPT ![t] = s.path]
    /\ UNCHANGED <<variant, lock, g_narenas, g_once, t_arena, op, arg, idx, ret>>

\* ------------------------------------------------------------ observed runs
\* the free list from p on as the program would print it: header address
\* and chunk size of each node, in list order
RECURSIVE FreeListSeq(_, _, _)
FreeListSeq(m, p, fuel) ==
    IF p = NULL \/ p \notin Addrs \/ fuel = 0 THEN << >>
    ELSE << [hdr |-> p, size |-> get_size_from_hdr(m[p])] >>
             \o FreeListSeq(m, IF p + WORD \in Addrs THEN m[p + WORD] ELSE NULL, fuel - 1)

\* no call is in progress
Quiet == \A u \in Threads : pc[u] = "idle"

\* The observing program notes each call as it issues it: a zero-size
\* my_malloc, a my_free(NULL), a my_malloc(n) (with bump, the free list and
\* the pointers held, as they are before the call), a my_free(p), a
\* my_free(p) of the pointer the my_malloc just before returned ("pair"),
\* and a my_malloc(n) right after the my_free of an n-byte buffer by the
\* same thread ("again", with the branch that my_free took).  alone says
\* that no call of another thread was in progress when the noted calls began;
\* any call issued later replaces the note.
Watch(t, o, x) ==
    probe' =
        IF o = "malloc" /\ x = 0 THEN [NoProbe EXCEPT !.call = "zero", !.t = t]
        ELSE IF o = "free" /\ x = NULL THEN [NoProbe EXCEPT !.call = "null", !.t = t]
        ELSE IF o = "malloc"
        THEN IF probe.call \in {"free", "pair"} /\ probe.t = t /\ probe.n = x
             THEN [NoProbe EXCEPT !.call = "again", !.t = t, !.p = probe.p, !.n = x,
                                  !.via = last[t], !.alone = probe.alone]
             ELSE [call |-> "malloc", t |-> t, p |-> NULL, n |-> x, via |-> "none",
                   alone |-> Quiet,
                   bump |-> arenas[0].bump,
                   list |-> FreeListSeq(mem, arenas[0].free_list, ScanFuel),
                   held |-> { l.p : l \in live }]
        ELSE IF probe.call = "malloc" /\ probe.t = t /\ probe.alone /\ x \notin probe.held
             THEN [probe EXCEPT !.call = "pair", !.p = x]
             ELSE [NoProbe EXCEPT !.call = "free", !.t = t, !.p = x,
                                  !.n = (CHOOSE l \in Held : l.p = x).n,
                                  !.alone = Quiet]

\* the three allocators under the observing program, MaxCalls calls in all
InitProbe == Init \/ InitV0 \/ InitSeq

NextProbe ==
    \/ /\ variant = "v1"
       /\ \E t \in Threads :
            \/ \E n \in ReqSizesOf(t) \cup {0} :
                   MallocCall(t, n) /\ Issue /\ Watch(t, "malloc", n)
            \/ \E p \in OwnPointers(t) \cup {NULL} :
                   FreeCall(t, p) /\ Issue /\ Watch(t, "free", p)
            \/ Step(t)
    \/ /\ variant = "v0"
       /\ \E t \in Threads :
            \/ \E n \in ReqSizesOf(t) \cup {0} :
                   V0MallocCall(t, n) /\ Issue /\ Watch(t, "malloc", n)
            \/ \E p \in AnyPointers \cup {NULL} :
                   V0FreeCall(t, p) /\ Issue /\ Watch(t, "free", p)
            \/ V0Lock(t)
            \/ V0MallocBody(t)
            \/ V0FreeBody(t)
            \/ Fill(t)
    \/ /\ variant = "seq"
       /\ \E t \in SeqThreads :
            \/ \E n \in ReqSizes \cup {0} :
                   SeqMalloc(t, n) /\ Issue /\ Watch(t, "malloc", n)
            \/ \E p \in AnyPointers \cup {NULL} :
                   SeqFree(t, p) /\ Issue /\ Watch(t, "free", p)
            \/ Fill(t)

SpecProbe == InitProbe /\ [][NextProbe]_vars

\* ------------------------------------------------------------ properties
\* the byte ranges [p, p+n) of two allocations meet
Meet(l1, l2) == l1.p < l2.p + l2.n /\ l2.p < l1.p + l1.n

\* C1: with every pointer freed by a thread of the arena it came from, no
\* two live allocations of my_alloc_v1.c occupy overlapping byte ranges,
\* whichever path (tcache pop, whole take, split, carve) handed them out.
C1_NoOverlap ==
    \A l1, l2 \in live : l1 # l2 => ~Meet(l1, l2)

\* C1 witness: a split of a free-list chunk has just handed out a buffer
\* while another allocation is live.
C1_Witness ==
    \E t \in Threads :
        /\ pc[t] = "fill"
        /\ last[t] = "split"
        /\ Cardinality(live) = 2

\* C2: the same with pointers freed by threads of another arena: no two
\* live allocations overlap and no chunk is handed out twice.
C2_CrossFreeSafe ==
    /\ \A l1, l2 \in live : l1 # l2 => ~Meet(l1, l2)
    /\ \A l1, l2 \in live : l1 # l2 => l1.p # l2.p

\* C3: every pointer my_malloc(n), n > 0, has just returned is 16-byte
\* aligned, lies 8 bytes above a chunk header inside [base, bump) of an
\* arena, and the chunk's usable payload (encoded size minus the header) is
\* at least n bytes.
C3_ReturnedPointer ==
    \A l \in live :
        l.f = 0 =>
            /\ l.p % 16 = 0
            /\ \E i \in ArenaIds :
                   /\ arenas[i].base # NULL
                   /\ arenas[i].base <= l.p - WORD
                   /\ l.p - WORD < arenas[i].bump
            /\ get_size_from_hdr(Rd(St, l.p - WORD)) - WORD >= l.n

\* C4: while an allocation is live, no allocator write (header, footer,
\* PREV_IN_USE, free-list link, tcache link) lands inside its requested
\* range [p, p+n): the range still holds the pattern its owner wrote.
C4_PatternIntact ==
    \A l \in Held :
        \A w \in Addrs : (l.p <= w /\ w < l.p + l.n) => mem[w] = l.f

\* C4 witness: a filled buffer is live while a thread has just linked a
\* freed chunk into the free list and another thread is inside a call.
C4_Witness ==
    /\ Held # {}
    /\ \E t, u \in Threads :
           /\ t # u
           /\ last[t] = "link"
           /\ pc[u] \in {"lock", "body"}

\* word w lies in the mapped region of arena i
InRegion(i, w) ==
    arenas[i].base # NULL /\ arenas[i].base <= w /\ w < arenas[i].end

\* C5: a call that takes the arena path writes free_list, bump, and the
\* header, footer and link words inside an arena's region only while its
\* thread holds the lock of that very arena, also when the freed chunk lies
\* in an arena other than the freeing thread's own.
C5_WritesUnderOwningLock ==
    [][\A t \in Threads :
          (pc[t] = "body" /\ pc'[t] # "body" /\ last'[t] \notin {"push", "tcache"}) =>
              \A i \in ArenaIds :
                  (\/ arenas'[i] # arenas[i]
                   \/ \E w \in Addrs : InRegion(i, w) /\ mem'[w] # mem[w])
                      => lock[i] = t]_vars

\* C6: a my_malloc served from the tcache and a my_free that pushes onto a
\* tcache bin run to completion without their thread holding an arena lock.
C6_TcachePathLockFree ==
    [][\A t \in Threads :
          (pc[t] = "body" /\ last'[t] \in {"tcache", "push"}) =>
              \A i \in ArenaIds : lock[i] # t]_vars

\* C7: in v0 and v1 a thread outside a call holds no lock, a thread never
\* holds two locks, and a thread about to lock holds none (it never takes
\* a lock it already holds).
C7_NoLockAtReturn ==
    \A t \in Threads :
        /\ pc[t] \in {"idle", "fill"} => \A i \in ArenaIds : lock[i] # t
        /\ Cardinality({ i \in ArenaIds : lock[i] = t }) <= 1
        /\ pc[t] = "lock" => \A i \in ArenaIds : lock[i] # t

\* C7 witness: a v0 my_free has returned after retracting the frontier
\* while the other thread waits for the global lock.
C7_Witness ==
    /\ variant = "v0"
    /\ \E t, u \in Threads :
           /\ pc[t] = "idle"
           /\ last[t] = "retract"
           /\ pc[u] = "lock"

\* the nodes a walk from p along fd visits; -1 marks a walk that meets a
\* node twice or leaves the address space
RECURSIVE ListWalk(_, _)
ListWalk(p, seen) ==
    IF p = NULL THEN seen
    ELSE IF p \in seen \/ p \notin Addrs THEN seen \cup {-1}
    ELSE ListWalk(mem[p + WORD], seen \cup {p})

\* the free list reachable from the head of every arena is finite and acyclic
FreeListsAcyclic ==
    \A i \in ArenaIds : -1 \notin ListWalk(arenas[i].free_list, {})

\* what the code's scheduling guarantees: a thread that can take a step of
\* its call takes it, and a thread waiting for a mutex that is free again
\* and again gets it
Running(t) ==
    \/ OnceBegin(t)
    \/ GlobalInitStep(t)
    \/ GetMyArena(t)
    \/ MallocBody(t)
    \/ FreeBody(t)

Fairness ==
    \A t \in Threads : WF_vars(Running(t)) /\ SF_vars(Lock(t))

\* the request size of the program run under fairness
SmallSizes == { 16 }

\* v1 under fair scheduling of threads and of lock acquisition: every
\* thread allocates and frees small buffers
NextFair ==
    \E t \in Threads :
        \/ \E n \in SmallSizes \cup {0} : MallocCall(t, n) /\ UNCHANGED <<issued, probe>>
        \/ \E p \in OwnPointers(t) \cup {NULL} : FreeCall(t, p) /\ UNCHANGED <<issued, probe>>
        \/ Step(t)

SpecFair == Init /\ [][NextFair]_vars /\ Fairness

\* the program with cross-thread frees under the same fair scheduling
SpecCrossFair == SpecCross /\ Fairness

\* C8: under fair scheduling every my_malloc and my_free call returns, and
\* in every reachable state the free list reachable from each arena head is
\* finite and acyclic, so the first-fit scan ends.
C8_CallsReturn ==
    /\ []FreeListsAcyclic
    /\ \A t \in Threads : (op[t] # "none") ~> (op[t] = "none")

\* C8 witness: a thread waits for the lock another thread holds while the
\* free list of that arena is not empty.
C8_Witness ==
    \E t, u \in Threads :
        /\ pc[t] = "lock"
        /\ lock[t_arena[t]] = u
        /\ arenas[t_arena[t]].free_list # NULL

\* C9: initialisation happens once.  A mapped arena keeps its base and end
\* for good, an arena with a carved chunk is never put back to the fresh
\* state (bump = base), the once control never goes back, and no thread
\* locks or works on an arena before its initialisation is complete (v1:
\* pthread_once has finished and the arena is mapped with a live mutex;
\* v0: a call that used the arena did so after g_base was set under g_lock).
C9_InitOnce ==
    [][/\ \A i \in ArenaIds :
              /\ arenas[i].base # NULL =>
                     /\ arenas'[i].base = arenas[i].base
                     /\ arenas'[i].end = arenas[i].end
              /\ arenas[i].bump # arenas[i].base =>
                     arenas'[i].bump # arenas'[i].base
       /\ g_once' >= g_once
       /\ \A t \in Threads :
              (variant = "v1" /\ pc'[t] \in {"lock", "body"}) =>
                  /\ g_once' = 2
                  /\ arenas'[t_arena'[t]].base # NULL
                  /\ lock'[t_arena'[t]] # UNINIT
       /\ \A t \in Threads :
              (variant = "v0" /\ pc[t] = "body" /\ pc'[t] # "body"
                 /\ last'[t] # "unusable") =>
                  arenas'[0].base # NULL]_vars

\* C9 witness: one thread is inside global_init with the first arena
\* already mapped while the other thread, in its own first call, waits in
\* pthread_once.
C9_Witness ==
    \E t, u \in Threads :
        /\ pc[t] = "ginit"
        /\ idx[t] = 1
        /\ arenas[0].base # NULL
        /\ pc[u] = "once"

\* the header position carve_from_top would use at frontier b
NextHdr(b) == CHOOSE h \in b .. (b + 15) : h % 16 = WORD

\* the request of thread t, now under the lock, cannot be satisfied: no
\* chunk in its tcache bin, none large enough on the free list, too little
\* room at the frontier
Unsatisfiable(t) ==
    LET need == NeedOf(arg[t])
        bin  == BinOf(need)
        a    == t_arena[t]
    IN /\ bin < 0 \/ g_tcache[t][bin].head = NULL
       /\ \A c \in ListWalk(arenas[a].free_list, {}) \ {-1} :
              get_size_from_hdr(mem[c]) < need
       /\ arenas[a].end - NextHdr(arenas[a].bump) < need

\* C10: a my_malloc(n), n > 0, on a usable arena returns NULL exactly when
\* the request cannot be satisfied, and then bump, the free list, every
\* chunk word and every tcache bin are as before and the lock is released.
C10_NullWhenUnsatisfiable ==
    [][\A t \in Threads :
          (pc[t] = "body" /\ op[t] = "malloc" /\ pc'[t] \in {"idle", "fill"}) =>
              /\ (ret'[t] = NULL) <=> Unsatisfiable(t)
              /\ ret'[t] = NULL =>
                     /\ arenas' = arenas
                     /\ mem' = mem
                     /\ g_tcache' = g_tcache
                     /\ lock'[t_arena[t]] = UNLOCKED]_vars

\* C10 witness: a my_malloc has returned NULL from an exhausted arena that
\* still has a chunk on its free list.
C10_Witness ==
    \E t \in Threads :
        /\ variant = "v1"
        /\ pc[t] = "idle"
        /\ last[t] = "null"
        /\ arenas[t_arena[t]].free_list # NULL

C12_FreeNullNoOp ==
    [][(probe'.call = "null" /\ issued' # issued) =>
          /\ lock' = lock
          /\ arenas' = arenas
          /\ mem' = mem
          /\ g_tcache' = g_tcache
          /\ pc' = pc
          /\ live' = live
          /\ g_once' = g_once
          /\ t_arena' = t_arena
          /\ fault' = fault]_vars

\* C12 witness: a my_free(NULL) has returned in v0 while another thread
\* holds g_lock and the free list is not empty.
C12_Witness ==
    /\ variant = "v0"
    /\ probe.call = "null"
    /\ lock[0] \in Threads \ {probe.t}
    /\ arenas[0].free_list # NULL

\* C13: an arena whose mapping failed in global_init is unusable for good
\* (base, bump, end null, free list empty, mutex never initialised); a thread
\* bound to it never reaches the lock, every my_malloc of it returns NULL
\* and every call of it returns with memory, arenas, tcache bins and lock
\* words as before; the mapped arenas keep their base and their live mutex.
C13_UnusableArena ==
    [][/\ \A i \in ArenaIds :
              /\ (g_once' = 2 /\ i < g_narenas' /\ arenas'[i].base = NULL) =>
                     arenas'[i] = ZeroArena /\ lock'[i] = UNINIT
              /\ (g_once = 2 /\ arenas[i].base # NULL) =>
                     arenas'[i].base = arenas[i].base /\ lock'[i] # UNINIT
       /\ \A t \in Threads :
              /\ (g_once' = 2 /\ t_arena'[t] # -1
                    /\ arenas'[t_arena'[t]].base = NULL) =>
                     /\ pc'[t] = "idle"
                     /\ ret'[t] = NULL
                     /\ last'[t] = "unusable"
                     /\ t_arena'[t] = t % g_narenas'
              /\ (pc'[t] = "idle" /\ last'[t] = "unusable"
                    /\ (pc[t] = "once" \/ issued' # issued)) =>
                     /\ mem' = mem
                     /\ arenas' = arenas
                     /\ g_tcache' = g_tcache
                     /\ lock' = lock
                     /\ fault' = fault]_vars

\* C13 witness: with one arena mapped and one not, a thread bound to the
\* unmapped arena has returned from its calls while the mapped arena still
\* has the chunk that thread was asked to free (nothing holds it any more:
\* no live allocation, no tcache bin, no free list).
C13_Witness ==
    \E t \in Threads, i \in ArenaIds :
        /\ pc[t] = "idle"
        /\ last[t] = "unusable"
        /\ arenas[t_arena[t]].base = NULL
        /\ arenas[i].base # NULL
        /\ arenas[i].bump > arenas[i].base + WORD
        /\ arenas[i].free_list = NULL
        /\ live = {}
        /\ \A u \in Threads : pc[u] = "idle"
        /\ \A u \in Threads, b \in Bins : g_tcache[u][b].head = NULL

\* C14: whenever my_free takes the arena path (mark free, coalesce, then
\* retract the frontier or link the chunk), the arena whose lock the caller
\* holds, whose bump is compared and moved and whose free list gets the
\* chunk is the arena whose [base, end) holds the pointer, whichever
\* thread calls my_free.
C14_FreedToOwningArena ==
    [][\A t \in Threads :
          (pc[t] = "body" /\ op[t] = "free" /\ pc'[t] = "idle"
             /\ last'[t] \in {"retract", "link"}) =>
              /\ lock[ArenaOf(arg[t])] = t
              /\ \A i \in ArenaIds \ {ArenaOf(arg[t])} : arenas'[i] = arenas[i]]_vars

\* C15: in v0, once the region is mapped, whenever no allocation is live
\* and no call is in progress (every pointer handed out has been freed, in
\* whatever order), bump equals base.
C15_FrontierRetracts ==
    (variant = "v0" /\ arenas[0].base # NULL /\ live = {} /\ Quiet) =>
        arenas[0].bump = arenas[0].base

\* thread t's my_malloc returns in this step
MallocReturns(t) ==
    pc[t] = "body" /\ op[t] = "malloc" /\ pc'[t] \in {"idle", "fill"}

\* C16 as stated: in v1, when a thread calls my_free(p) for a buffer of n
\* bytes and then at once my_malloc(n), with no call of another thread in
\* between, the my_malloc returns p again, whichever way my_free and
\* my_malloc went.
C16_ReuseSamePointer ==
    [][\A t \in Threads :
          (variant = "v1" /\ MallocReturns(t) /\ probe.call = "again" /\ probe.t = t
             /\ probe.alone) =>
              ret'[t] = probe.p]_vars

\* C16 amended: the my_malloc returns p again when my_free pushed the chunk
\* on the calling thread's tcache bin for requests of n bytes (the chunk's
\* size class is that of n and the bin was not full); the chunk then comes
\* back from the tcache.
C16_TcacheReuse ==
    [][\A t \in Threads :
          (variant = "v1" /\ MallocReturns(t) /\ probe.call = "again" /\ probe.t = t
             /\ probe.alone
             /\ probe.via = "push"
             /\ size_to_tcache_bin(get_size_from_hdr(mem[probe.p - WORD]) - WORD)
                    = BinOf(NeedOf(probe.n))) =>
              /\ ret'[t] = probe.p
              /\ last'[t] = "tcache"]_vars

\* C16 witness: a buffer went to the tcache and came back at the same
\* address from the my_malloc right after, while another allocation is live.
C16_Witness ==
    /\ variant = "v1"
    /\ probe.call = "again"
    /\ probe.alone
    /\ probe.via = "push"
    /\ pc[probe.t] = "fill"
    /\ ret[probe.t] = probe.p
    /\ last[probe.t] = "tcache"
    /\ \E l \in Held : l.p # probe.p

\* thread t's my_free returns in this step
FreeReturns(t) ==
    pc[t] = "body" /\ op[t] = "free" /\ pc'[t] = "idle"

\* the nodes of a free list, without their order
Nodes(list) == { list[k] : k \in 1 .. Len(list) }

ClampedHint(h) == IF h < 1 THEN 1 ELSE IF h > MAX_ARENAS THEN MAX_ARENAS ELSE h

FrontierAtFirstHeader ==
    (variant = "v0" /\ arenas[0].base # NULL /\ live = {} /\ Quiet) =>
        /\ arenas[0].bump = arenas[0].base + WORD
        /\ arenas[0].free_list = NULL

\* the chunk headers met from h on, each at the end of the chunk before,
\* lead exactly to bump b
RECURSIVE TilesFrom(_, _, _)
TilesFrom(h, b, fuel) ==
    IF h = b THEN TRUE
    ELSE IF h > b \/ h \notin Addrs \/ fuel = 0 THEN FALSE
    ELSE IF get_size_from_hdr(mem[h]) = 0 THEN FALSE
    ELSE TilesFrom(h + get_size_from_hdr(mem[h]), b, fuel - 1)

\* C19: with no call in progress the chunks of every mapped arena tile
\* [base, bump): the first header is at base, each next header is at the
\* end of the chunk before, and the last chunk ends at bump (bump = base
\* when there is no chunk).
C19_ChunksTile ==
    Quiet =>
        \A i \in ArenaIds :
            arenas[i].base # NULL =>
                TilesFrom(arenas[i].base, arenas[i].bump, ScanFuel)

\* what the code does instead: the chunks tile [base + 8, bump)
TilesFromFirstHeader ==
    Quiet =>
        \A i \in ArenaIds :
            (arenas[i].base # NULL /\ arenas[i].bump # arenas[i].base) =>
                TilesFrom(arenas[i].base + WORD, arenas[i].bump, ScanFuel)

\* the headers of the chunks from h up to bump b whose FREE bit is set
RECURSIVE FreeChunks(_, _, _)
FreeChunks(h, b, fuel) ==
    IF h >= b \/ h \notin Addrs \/ fuel = 0 THEN {}
    ELSE IF get_size_from_hdr(mem[h]) = 0 THEN {}
    ELSE (IF get_free_bit_from_hdr(mem[h]) # 0 THEN {h} ELSE {})
             \cup FreeChunks(h + get_size_from_hdr(mem[h]), b, fuel - 1)

\* C20: in v0 and in v1 without cross-arena frees, the chunks with the
\* FREE bit are exactly the chunks on the arena's free list, and no two of
\* them are adjacent in address order: the single right-then-left merge of
\* each arena-path my_free keeps it so, also after splits and after frees
\* that found the tcache bin full.
C20_NoAdjacentFree ==
    \A i \in ArenaIds :
        arenas[i].base # NULL =>
            LET free == FreeChunks(arenas[i].base + WORD, arenas[i].bump, ScanFuel)
            IN /\ free = ListWalk(arenas[i].free_list, {})
               /\ \A h \in free : h + get_size_from_hdr(mem[h]) \notin free

\* C20 witness: the chunk at the head of a free list is the merge of two
\* chunks (its size is that of no single request), and a chunk behind it
\* keeps it away from the frontier.
C20_Witness ==
    \E i \in ArenaIds :
        /\ arenas[i].free_list # NULL
        /\ get_size_from_hdr(mem[arenas[i].free_list]) \in {64, 112}
        /\ Quiet

\* the headers of the chunks met from h on, below bump b
RECURSIVE ChunkHdrs(_, _, _)
ChunkHdrs(h, b, fuel) ==
    IF h >= b \/ h \notin Addrs \/ fuel = 0 THEN {}
    ELSE IF get_size_from_hdr(mem[h]) = 0 THEN {h}
    ELSE {h} \cup ChunkHdrs(h + get_size_from_hdr(mem[h]), b, fuel - 1)

\* the chunks of arena i, from its first header up to bump
ChunksOf(i) ==
    IF arenas[i].base = NULL THEN {}
    ELSE ChunkHdrs(arenas[i].base + WORD, arenas[i].bump, ScanFuel)

\* C21: with no call in progress, every chunk below bump that has a left
\* neighbour has PREV_IN_USE set exactly when the left neighbour's FREE bit
\* is clear, whatever carve, split, whole take, tcache push and pop,
\* coalesce and retraction did before.
C21_PrevInUseAgrees ==
    Quiet =>
        \A i \in ArenaIds :
            \A c \in ChunksOf(i) :
                LET n == c + get_size_from_hdr(mem[c])
                IN n \in ChunksOf(i) =>
                       (get_prev_from_hdr(mem[n]) # 0 <=> get_free_bit_from_hdr(mem[c]) = 0)

\* the chunk my_free(p) makes of the chunk of p and its free neighbours in
\* arena i: where it ends (the right neighbour joins when it lies below bump
\* and is free) and where it starts (the left neighbour joins when
\* PREV_IN_USE is clear and the footer before the header is free)
MergedEnd(i, p) ==
    LET hdr == p - WORD
        nxt == hdr + get_size_from_hdr(mem[hdr])
    IN IF nxt < arenas[i].bump /\ nxt \in Addrs /\ get_free_bit_from_hdr(mem[nxt]) # 0
       THEN nxt + get_size_from_hdr(mem[nxt])
       ELSE nxt

MergedHdr(p) ==
    LET hdr == p - WORD
    IN IF get_prev_from_hdr(mem[hdr]) = 0 /\ get_free_bit_from_hdr(mem[hdr - WORD]) # 0
       THEN hdr - get_size_from_hdr(mem[hdr - WORD])
       ELSE hdr

\* C22: with no call in progress no chunk that ends at bump is free.  An
\* arena-path my_free whose merged chunk ends exactly at bump does not link
\* it: bump becomes the merged chunk's header and the chunk is on no list;
\* otherwise bump stays and the merged chunk is the new head of the free
\* list.
C22_NoFreeChunkAtBump ==
    /\ [](Quiet =>
            \A i \in ArenaIds :
                \A c \in ChunksOf(i) :
                    get_free_bit_from_hdr(mem[c]) # 0 =>
                        c + get_size_from_hdr(mem[c]) # arenas[i].bump)
    /\ [][\A t \in Threads :
             (FreeReturns(t) /\ last'[t] \in {"retract", "link"}) =>
                 LET i == ArenaOf(arg[t])
                 IN IF MergedEnd(i, arg[t]) = arenas[i].bump
                    THEN /\ last'[t] = "retract"
                         /\ arenas'[i].bump = MergedHdr(arg[t])
                         /\ \A nd \in Nodes(FreeListSeq(mem', arenas'[i].free_list, ScanFuel)) :
                                nd.hdr # arenas'[i].bump
                    ELSE /\ last'[t] = "link"
                         /\ arenas'[i].bump = arenas[i].bump
                         /\ arenas'[i].free_list = MergedHdr(arg[t])]_vars

\* the chunks stacked on a tcache bin from head p on, along fd, in memory m
RECURSIVE BinChunks(_, _, _)
BinChunks(m, p, fuel) ==
    IF p = NULL \/ p \notin Addrs \/ fuel = 0 THEN {}
    ELSE {p} \cup BinChunks(m, m[p + WORD], fuel - 1)

\* the chunks held in the tcache bins tc of all threads
Parked(m, tc) ==
    UNION { BinChunks(m, tc[t][b].head, ScanFuel) : t \in Threads, b \in Bins }

InTcache == Parked(mem, g_tcache)

\* C23: with no call in progress a chunk below bump has its FREE bit set
\* exactly when it is on its arena's free list; in particular every node of
\* the list is a chunk with FREE set, and every chunk that is live or held
\* in a tcache bin has FREE clear.
C23_FreeBitIffListed ==
    Quiet =>
        /\ \A i \in ArenaIds :
               \A c \in ChunksOf(i) \cup ListWalk(arenas[i].free_list, {}) :
                   /\ c \in ChunksOf(i)
                   /\ get_free_bit_from_hdr(mem[c]) # 0
                          <=> c \in ListWalk(arenas[i].free_list, {})
        /\ \A l \in live : get_free_bit_from_hdr(mem[l.p - WORD]) = 0
        /\ \A c \in InTcache : get_free_bit_from_hdr(mem[c]) = 0

\* the arena a call of thread t works on: the caller's own in v1, the one
\* region in v0
ArenaUsed(t) == IF variant = "v1" THEN t_arena[t] ELSE 0

\* C24: every chunk on an arena free list has, in its last word, a footer
\* that encodes the header's size with the FREE bit; and whenever my_free
\* merges to the left, the header it computes from the footer before the
\* freed chunk is the header of a chunk on the free list.
C24_FooterMatchesHeader ==
    /\ [](\A i \in ArenaIds :
             \A c \in ListWalk(arenas[i].free_list, {}) :
                 /\ c \in Addrs
                 /\ c + get_size_from_hdr(mem[c]) - WORD \in Addrs
                 /\ mem[c + get_size_from_hdr(mem[c]) - WORD]
                        = get_size_from_hdr(mem[c]) + CHUNK_FREE_BIT)
    /\ [][\A t \in Threads :
             (FreeReturns(t) /\ last'[t] \in {"retract", "link"}) =>
                 LET hdr == arg[t] - WORD
                 IN (get_prev_from_hdr(mem[hdr]) = 0
                       /\ get_free_bit_from_hdr(mem[hdr - WORD]) # 0) =>
                        /\ hdr - get_size_from_hdr(mem[hdr - WORD])
                               \in ListWalk(arenas[ArenaUsed(t)].free_list, {})
                        /\ hdr - get_size_from_hdr(mem[hdr - WORD])
                               \in UNION { ChunksOf(i) : i \in ArenaIds }]_vars

\* C25: every chunk below bump, whether live, held in a tcache bin or free,
\* has an encoded size that is a multiple of 16 and at least the minimum
\* free-chunk size get_free_chunk_min_size() that split_free_chunk uses as
\* its threshold.
C25_ChunkSizeAtLeastMin ==
    \A i \in ArenaIds :
        \A c \in ChunksOf(i) :
            /\ get_size_from_hdr(mem[c]) % 16 = 0
            /\ get_size_from_hdr(mem[c]) >= get_free_chunk_min_size

\* what the code keeps instead in the ordinary workload: every chunk has
\* room for header, two links and footer (four words)
ChunkHoldsFreeRecord ==
    \A i \in ArenaIds :
        \A c \in ChunksOf(i) :
            /\ get_size_from_hdr(mem[c]) % 16 = 0
            /\ get_size_from_hdr(mem[c]) >= 4 * WORD

\* C26: in v1 a chunk held in a tcache bin stays in use for the arena.  The
\* push in my_free leaves bump, the free list and every word but the
\* chunk's first payload word as they were and changes only its own bin
\* (head and count); while the chunk stays in the bin its size and its last
\* word (the footer slot) are not rewritten, its FREE bit is clear, it is
\* still a chunk below bump of its arena, on no free list, and its right
\* neighbour keeps PREV_IN_USE.
C26_TcacheChunkStaysInUse ==
    /\ [](variant = "v1" =>
            \A c \in InTcache :
                /\ get_free_bit_from_hdr(mem[c]) = 0
                /\ ArenaOf(c) \in ArenaIds
                /\ c \in ChunksOf(ArenaOf(c))
                /\ \A i \in ArenaIds : c \notin ListWalk(arenas[i].free_list, {})
                /\ LET n == c + get_size_from_hdr(mem[c])
                   IN n < arenas[ArenaOf(c)].bump => get_prev_from_hdr(mem[n]) # 0)
    /\ [][variant = "v1" =>
            /\ \A t \in Threads :
                   (FreeReturns(t) /\ last'[t] = "push") =>
                       /\ arenas' = arenas
                       /\ \A w \in Addrs : w # arg[t] => mem'[w] = mem[w]
                       /\ \A u \in Threads, b \in Bins :
                              g_tcache'[u][b] # g_tcache[u][b] =>
                                  /\ u = t
                                  /\ g_tcache'[u][b].head = arg[t] - WORD
                                  /\ g_tcache'[u][b].count = g_tcache[u][b].count + 1
            /\ \A c \in InTcache \cap Parked(mem', g_tcache') :
                   /\ get_size_from_hdr(mem'[c]) = get_size_from_hdr(mem[c])
                   /\ mem'[c + get_size_from_hdr(mem[c]) - WORD]
                          = mem[c + get_size_from_hdr(mem[c]) - WORD]]_vars

\* the number of chunks stacked on a tcache bin from head p on, along fd;
\* a chain that never ends counts ScanFuel
RECURSIVE BinLen(_, _, _)
BinLen(m, p, fuel) ==
    IF p = NULL THEN 0
    ELSE IF p \notin Addrs \/ fuel = 0 THEN ScanFuel
    ELSE 1 + BinLen(m, m[p + WORD], fuel - 1)

\* the bin my_free looks at for the chunk of pointer p
BinOfChunk(p) ==
    size_to_tcache_bin((get_size_from_hdr(mem[p - WORD]) - WORD) % SIZE_MOD)

\* C27: in v1, for every thread and bin, count is the number of chunks
\* reachable from head along fd, it lies between 0 and TCACHE_MAX_COUNT, and
\* head is null exactly when count is 0; a my_free into a bin whose count is
\* TCACHE_MAX_COUNT takes the arena path and leaves the bin as it was.
C27_BinCountMatchesChain ==
    /\ [](variant = "v1" =>
            \A t \in Threads, b \in Bins :
                /\ g_tcache[t][b].count = BinLen(mem, g_tcache[t][b].head, ScanFuel)
                /\ g_tcache[t][b].count >= 0
                /\ g_tcache[t][b].count <= TCACHE_MAX_COUNT
                /\ g_tcache[t][b].head = NULL <=> g_tcache[t][b].count = 0)
    /\ [][variant = "v1" =>
            \A t \in Threads :
                (FreeReturns(t) /\ BinOfChunk(arg[t]) >= 0
                   /\ g_tcache[t][BinOfChunk(arg[t])].count = TCACHE_MAX_COUNT) =>
                    /\ last'[t] \in {"retract", "link"}
                    /\ g_tcache' = g_tcache
                    /\ BinChunks(mem', g_tcache'[t][BinOfChunk(arg[t])].head, ScanFuel)
                           = BinChunks(mem, g_tcache[t][BinOfChunk(arg[t])].head, ScanFuel)]_vars

\* C28: in v1 every chunk stored in bin b of any thread has a usable size
\* (encoded size minus the header word) in [16(b+1), 16(b+2)), so a chunk
\* popped for a request has at least the request's needed total; a request
\* or a chunk whose usable size maps to no bin neither pops from nor pushes
\* to a tcache.
C28_BinSizeClass ==
    /\ [](variant = "v1" =>
            \A t \in Threads, b \in Bins :
                \A c \in BinChunks(mem, g_tcache[t][b].head, ScanFuel) :
                    /\ get_size_from_hdr(mem[c]) - WORD >= 16 * (b + 1)
                    /\ get_size_from_hdr(mem[c]) - WORD < 16 * (b + 2))
    /\ [][variant = "v1" =>
            \A t \in Threads :
                /\ (MallocReturns(t) /\ last'[t] = "tcache") =>
                       /\ BinOf(NeedOf(arg[t])) \in Bins
                       /\ get_size_from_hdr(mem'[ret'[t] - WORD]) >= NeedOf(arg[t])
                /\ (MallocReturns(t) /\ BinOf(NeedOf(arg[t])) \notin Bins) =>
                       /\ last'[t] # "tcache"
                       /\ g_tcache' = g_tcache
                /\ (FreeReturns(t) /\ BinOfChunk(arg[t]) \notin Bins) =>
                       /\ last'[t] # "push"
                       /\ g_tcache' = g_tcache]_vars

\* the header of the first node of list, in list order, whose size reaches
\* need_total; NULL when no node does
RECURSIVE FirstFit(_, _)
FirstFit(list, need_total) ==
    IF list = << >> THEN NULL
    ELSE IF Head(list).size >= need_total THEN Head(list).hdr
    ELSE FirstFit(Tail(list), need_total)

\* list without the nodes whose header lies in [lo, hi)
Unlinked(list, lo, hi) ==
    SelectSeq(list, LAMBDA nd : nd.hdr < lo \/ nd.hdr >= hi)

\* the free list of arena i as it is before and after a step
ListBefore(i) == FreeListSeq(mem, arenas[i].free_list, ScanFuel)
ListAfter(i) == FreeListSeq(mem', arenas'[i].free_list, ScanFuel)

\* C29: a my_malloc that reaches the arena path takes the first node of the
\* free list, in list order from the head, whose size is at least the needed
\* total, and goes to the frontier only when no node has that size; a split
\* remainder and a chunk freed on the arena path become the new head with
\* the other nodes behind them in their old order, so the most recently
\* inserted fitting chunk is met first and a later chunk is never taken in
\* place of an earlier fitting one.
C29_FirstFitLifo ==
    [][\A t \in Threads :
          /\ (MallocReturns(t) /\ last'[t] \in {"split", "whole", "carve", "null"}) =>
                 LET i    == ArenaUsed(t)
                     need == NeedOf(arg[t])
                     fit  == FirstFit(ListBefore(i), need)
                 IN /\ fit # NULL =>
                           /\ last'[t] \in {"split", "whole"}
                           /\ ret'[t] = fit + WORD
                    /\ fit = NULL => last'[t] \in {"carve", "null"}
                    /\ last'[t] = "whole" =>
                           ListAfter(i) = Unlinked(ListBefore(i), fit, fit + 1)
                    /\ last'[t] = "split" =>
                           /\ ListAfter(i) # << >>
                           /\ Head(ListAfter(i)).hdr = fit + need
                           /\ Tail(ListAfter(i)) = Unlinked(ListBefore(i), fit, fit + 1)
          /\ (FreeReturns(t) /\ last'[t] = "link") =>
                 LET i == ArenaUsed(t)
                 IN /\ ListAfter(i) # << >>
                    /\ Head(ListAfter(i)).hdr = MergedHdr(arg[t])
                    /\ Tail(ListAfter(i)) =
                           Unlinked(ListBefore(i), MergedHdr(arg[t]), MergedEnd(i, arg[t]))]_vars

\* every node of arena i's free list carries the FREE bit
ListedAreFree(i) ==
    \A k \in 1 .. Len(ListBefore(i)) :
        get_free_bit_from_hdr(mem[ListBefore(i)[k].hdr]) # 0

\* try_free_list on a list whose nodes are all FREE: the first node that is
\* large enough is the one taken
FirstFitAmongFree ==
    [][\A t \in Threads :
          (/\ MallocReturns(t)
           /\ last'[t] \in {"split", "whole", "carve", "null"}
           /\ ListedAreFree(ArenaUsed(t))) =>
              LET fit == FirstFit(ListBefore(ArenaUsed(t)), NeedOf(arg[t]))
              IN /\ fit # NULL => last'[t] \in {"split", "whole"} /\ ret'[t] = fit + WORD
                 /\ fit = NULL => last'[t] \in {"carve", "null"}]_vars

\* the chunk a my_malloc took from the free list, and its size before
Taken(t) == ret'[t] - WORD
TakenSize(t) == get_size_from_hdr(mem[Taken(t)])

\* C30: a my_malloc that takes a listed free chunk of size s for a needed
\* total need splits it when s >= need + get_free_chunk_min_size(): the low
\* need bytes become the in-use chunk, the other s - need bytes a free chunk
\* with header and footer, PREV_IN_USE set, at the head of the free list;
\* otherwise the whole chunk is taken and keeps size s.  Either way bump
\* stays, the two sizes add up to s, and the chunk to the right of the new
\* in-use chunk, when below bump, has PREV_IN_USE set.
C30_SplitOrWhole ==
    [][\A t \in Threads :
          (MallocReturns(t) /\ last'[t] \in {"split", "whole"}
             /\ get_free_bit_from_hdr(mem[Taken(t)]) # 0) =>
              LET i    == ArenaUsed(t)
                  fc   == Taken(t)
                  s    == TakenSize(t)
                  need == NeedOf(arg[t])
                  rem  == fc + need
                  nxt  == fc + get_size_from_hdr(mem'[fc])
              IN /\ last'[t] = "split" <=> s >= need + get_free_chunk_min_size
                 /\ last'[t] = "split" =>
                        /\ get_size_from_hdr(mem'[fc]) = need
                        /\ get_size_from_hdr(mem'[rem]) = s - need
                        /\ get_free_bit_from_hdr(mem'[rem]) # 0
                        /\ get_prev_from_hdr(mem'[rem]) # 0
                        /\ mem'[rem + (s - need) - WORD] = (s - need) + CHUNK_FREE_BIT
                        /\ arenas'[i].free_list = rem
                        /\ get_size_from_hdr(mem'[fc]) + get_size_from_hdr(mem'[rem]) = s
                 /\ last'[t] = "whole" => get_size_from_hdr(mem'[fc]) = s
                 /\ get_free_bit_from_hdr(mem'[fc]) = 0
                 /\ arenas'[i].bump = arenas[i].bump
                 /\ (nxt < arenas'[i].bump /\ nxt \in Addrs) =>
                        get_prev_from_hdr(mem'[nxt]) # 0]_vars

\* the first chunk header of arena i (carve_from_top from bump = base)
FirstHdr(i) == arenas[i].base + WORD

\* C31: carve_from_top writes the new header with PREV_IN_USE set, and the
\* bit is right: the carved chunk is the arena's first chunk or the chunk
\* that ends at the old frontier is not free.  The first chunk of an arena
\* has PREV_IN_USE set in every reachable state, so an arena-path my_free of
\* the first chunk never looks at a footer below the first header.
C31_CarvePrevInUse ==
    /\ [](\A i \in ArenaIds :
              (arenas[i].base # NULL /\ arenas[i].bump > FirstHdr(i)) =>
                  get_prev_from_hdr(mem[FirstHdr(i)]) # 0)
    /\ [][\A t \in Threads :
             /\ (MallocReturns(t) /\ last'[t] = "carve") =>
                    LET i   == ArenaUsed(t)
                        hdr == ret'[t] - WORD
                    IN /\ get_prev_from_hdr(mem'[hdr]) # 0
                       /\ \/ hdr = FirstHdr(i)'
                          \/ \E c \in ChunksOf(i) :
                                 /\ c + get_size_from_hdr(mem[c]) = hdr
                                 /\ get_free_bit_from_hdr(mem[c]) = 0
             /\ (FreeReturns(t) /\ last'[t] \in {"retract", "link"}) =>
                    \A i \in ArenaIds :
                        (arenas[i].base # NULL /\ arg[t] - WORD = FirstHdr(i)) =>
                            /\ get_prev_from_hdr(mem[arg[t] - WORD]) # 0
                            /\ MergedHdr(arg[t]) = FirstHdr(i)]_vars

\* thread t's tcache has nothing for a request of need_total bytes
TcacheMiss(t, need_total) ==
    \/ variant # "v1"
    \/ BinOf(need_total) < 0
    \/ g_tcache[t][BinOf(need_total)].head = NULL

\* no node of arena i's free list has need_total bytes
NoneListed(i, need_total) == FirstFit(ListBefore(i), need_total) = NULL

\* C32: base <= bump <= end in every state.  While the process runs, the
\* bump of a mapped arena moves only up, in a my_malloc that carves after its tcache bin was empty
\* or not applicable and no listed chunk had the needed size, or down, in an
\* arena-path my_free that retracts the frontier; tcache hits and pushes,
\* free-list hits and failed allocations leave it where it was.
C32_BumpMoves ==
    /\ [](\A i \in ArenaIds :
              arenas[i].base <= arenas[i].bump /\ arenas[i].bump <= arenas[i].end)
    /\ [][\A i \in ArenaIds :
             (arenas[i].base # NULL /\ arenas'[i].bump # arenas[i].bump /\ ~fault') =>
                 \E t \in Threads :
                     /\ ArenaUsed(t) = i
                     /\ \/ /\ MallocReturns(t)
                           /\ last'[t] = "carve"
                           /\ arenas'[i].bump > arenas[i].bump
                           /\ TcacheMiss(t, NeedOf(arg[t]))
                           /\ NoneListed(i, NeedOf(arg[t]))
                        \/ /\ FreeReturns(t)
                           /\ last'[t] = "retract"
                           /\ arenas'[i].bump < arenas[i].bump]_vars

\* the free list of arena i is a doubly linked list of chunks of arena i:
\* it ends, the head has no predecessor, every successor points back, and
\* every node is a chunk header between the first header and bump
ListWellFormed(i) ==
    LET list == ListBefore(i)
    IN /\ -1 \notin ListWalk(arenas[i].free_list, {})
       /\ Cardinality({ list[k].hdr : k \in 1 .. Len(list) }) = Len(list)
       /\ list # << >> => mem[BK(list[1].hdr)] = NULL
       /\ \A k \in 1 .. Len(list) - 1 : mem[BK(list[k + 1].hdr)] = list[k].hdr
       /\ \A k \in 1 .. Len(list) : list[k].hdr \in ChunksOf(i)

\* C33: with no call in progress every arena's free list is a well-formed
\* doubly linked list of chunks lying in [base, bump) of that arena, and
\* remove_from_free_list is only applied to a chunk that is on the list of
\* the arena it is called with: the chunk my_malloc takes, and the right and
\* left neighbours my_free merges with.
C33_ListWellFormed ==
    /\ [](Quiet => \A i \in ArenaIds : ListWellFormed(i))
    /\ [][\A t \in Threads :
             /\ (MallocReturns(t) /\ last'[t] \in {"split", "whole"}) =>
                    Taken(t) \in ListWalk(arenas[ArenaUsed(t)].free_list, {})
             /\ (FreeReturns(t) /\ last'[t] \in {"retract", "link"}) =>
                    LET i   == ArenaUsed(t)
                        hdr == arg[t] - WORD
                        nxt == hdr + get_size_from_hdr(mem[hdr])
                    IN /\ MergedEnd(i, arg[t]) # nxt =>
                              nxt \in ListWalk(arenas[i].free_list, {})
                       /\ MergedHdr(arg[t]) # hdr =>
                              MergedHdr(arg[t]) \in ListWalk(arenas[i].free_list, {})]_vars

\* C34: whenever my_malloc(size), size > 0, returns a pointer, the needed
\* total it computed in size_t arithmetic, align16(8 + align16(size)), is at
\* least size + 8 and at least 32, and so is the size of the chunk behind
\* the pointer: wrap-around of align16 near the top of size_t never yields
\* a chunk smaller than the request or than a free record.
C34_NeedCoversRequest ==
    [][\A t \in Threads :
          (MallocReturns(t) /\ ret'[t] # NULL) =>
              /\ NeedOf(arg[t]) >= arg[t] + WORD
              /\ NeedOf(arg[t]) >= 4 * WORD
              /\ get_size_from_hdr(mem'[ret'[t] - WORD]) >= arg[t] + WORD
              /\ get_size_from_hdr(mem'[ret'[t] - WORD]) >= 4 * WORD]_vars

\* the places that hold chunk c of arena i: live records, tcache bins (a
\* chain is counted by its length when c is on it), the arena's free list
HeldLive(c) == { l \in live : l.p = c + WORD }
HeldInBins(c) ==
    { tb \in Threads \X Bins :
          c \in BinChunks(mem, g_tcache[tb[1]][tb[2]].head, ScanFuel) }
HeldOnList(i, c) ==
    { k \in 1 .. Len(ListBefore(i)) : ListBefore(i)[k].hdr = c }

\* all chunk headers on free lists, in the memory m with the arenas ar
Listed(m, ar) ==
    UNION { { nd.hdr : nd \in Nodes(FreeListSeq(m, ar[i].free_list, ScanFuel)) }
                : i \in ArenaIds }

\* C35: in v1, with every pointer freed in its own arena and no call in
\* progress, every chunk between the first header and bump of an arena is
\* held in exactly one place, exactly once: by the program (live), in one
\* tcache bin of one thread, or on that arena's free list; and everything
\* live, parked or listed is such a chunk.  A chunk leaves a tcache bin only
\* by a pop in my_malloc, enters one only by the push of a freed pointer,
\* and enters a free list only in an arena-path my_free or as the remainder
\* of a split.
C35_ChunkInOnePlace ==
    /\ [](variant = "v1" /\ Quiet =>
            /\ \A i \in ArenaIds :
                   /\ \A c \in ChunksOf(i) :
                          Cardinality(HeldLive(c)) + Cardinality(HeldInBins(c))
                              + Cardinality(HeldOnList(i, c)) = 1
                   /\ -1 \notin ListWalk(arenas[i].free_list, {})
                   /\ \A c \in ListWalk(arenas[i].free_list, {}) : c \in ChunksOf(i)
            /\ \A l \in live : \E i \in ArenaIds : l.p - WORD \in ChunksOf(i)
            /\ \A c \in InTcache : \E i \in ArenaIds : c \in ChunksOf(i)
            /\ \A t \in Threads, b \in Bins :
                   BinLen(mem, g_tcache[t][b].head, ScanFuel)
                       = Cardinality(BinChunks(mem, g_tcache[t][b].head, ScanFuel)))
    /\ [][variant = "v1" =>
            /\ \A c \in InTcache \ Parked(mem', g_tcache') :
                   \E t \in Threads :
                       MallocReturns(t) /\ last'[t] = "tcache" /\ ret'[t] = c + WORD
            /\ \A c \in Parked(mem', g_tcache') \ InTcache :
                   \E t \in Threads :
                       FreeReturns(t) /\ last'[t] = "push" /\ arg[t] = c + WORD
            /\ \A c \in Listed(mem', arenas') \ Listed(mem, arenas) :
                   \E t \in Threads :
                       \/ FreeReturns(t) /\ last'[t] = "link" /\ c = MergedHdr(arg[t])
                       \/ /\ MallocReturns(t) /\ last'[t] = "split"
                          /\ c = Taken(t) + NeedOf(arg[t])]_vars

\* C35 witness: with no call in progress, after a my_free that overflowed a
\* full bin, one chunk of an arena is parked in a tcache bin and another
\* chunk of the same arena is on its free list.
C35_Witness ==
    /\ variant = "v1"
    /\ Quiet
    /\ \E t \in Threads : last[t] = "link"
    /\ \E i \in ArenaIds :
           \E c, d \in ChunksOf(i) :
               /\ c # d
               /\ Cardinality(HeldInBins(c)) = 1
               /\ Cardinality(HeldOnList(i, d)) = 1

\* ---------------------------------------------------------------------------
\* my_alloc.c: left merge and stale footers
\* ---------------------------------------------------------------------------

\* The pointers the program gives up in this step
Freed == { l.p : l \in live } \ { l.p : l \in live' }

\* The chunk that get_prev_chunk_if_free names for the chunk at hdr, NULL
\* when hdr is the first chunk or the word below it has no FREE bit
LeftOf(hdr) ==
    IF hdr = arenas[0].base \/ hdr - WORD \notin Addrs THEN NULL
    ELSE IF get_free_bit_from_hdr(mem[hdr - WORD]) = 0 THEN NULL
    ELSE hdr - get_size_from_hdr(mem[hdr - WORD])

\* C36: in my_alloc.c, my_free merges the freed chunk with its left
\* neighbour only when that neighbour is free and on the free list: the
\* footer of a chunk that was freed and then handed out again whole never
\* makes coalesce unlink or absorb an allocation the program still holds.
\* After the call every allocation still held keeps its header, stays below
\* the frontier and off the free list, and the call has not faulted.
C36_LeftMergeOnlyFree ==
    [][variant = "seq" =>
         \A p \in Freed :
            LET prv == LeftOf(p - WORD)
            IN /\ prv # NULL =>
                    /\ prv \in ListWalk(arenas[0].free_list, {})
                    /\ get_free_bit_from_hdr(mem[prv]) = 1
                    /\ \A l \in live : l.p # prv + WORD
               /\ ~fault'
               /\ \A l \in live' :
                    /\ mem'[l.p - WORD] \div 4 = mem[l.p - WORD] \div 4
                    /\ l.p - WORD < arenas'[0].bump
                    /\ l.p - WORD \notin Listed(mem', arenas')]_vars

\* ---------------------------------------------------------------------------
\* my_alloc.c: whole reuse
\* ---------------------------------------------------------------------------

\* Chunk sizes read from memory m lead from header h exactly to b
RECURSIVE TilesIn(_, _, _, _)
TilesIn(m, h, b, fuel) ==
    IF h = b THEN TRUE
    ELSE IF h > b \/ h \notin Addrs \/ fuel = 0 THEN FALSE
    ELSE IF get_size_from_hdr(m[h]) = 0 THEN FALSE
    ELSE TilesIn(m, h + get_size_from_hdr(m[h]), b, fuel - 1)

\* C37: in my_alloc.c, when my_malloc takes a listed chunk whole, the chunk
\* has the same encoded size after my_malloc returns as it had on the list,
\* the chunks still tile the region from the first header to bump, and the
\* header that follows the chunk's full size (when below bump) has
\* PREV_IN_USE set; and once the program has freed everything, bump is back
\* at the first header and the free list is empty.
C37_WholeKeepsSize ==
    /\ [][\A t \in SeqThreads :
            (variant = "seq" /\ pc[t] = "idle" /\ pc'[t] = "fill" /\ last'[t] = "whole") =>
                LET hdr == ret'[t] - WORD
                    csz == get_size_from_hdr(mem[hdr])
                IN /\ get_size_from_hdr(mem'[hdr]) = csz
                   /\ TilesIn(mem', FirstHdr(0), arenas'[0].bump, ScanFuel)
                   /\ hdr + csz < arenas'[0].bump =>
                          get_prev_from_hdr(mem'[hdr + csz]) # 0]_vars
    /\ [](( /\ variant = "seq" /\ Quiet /\ ~fault
            /\ live = {} /\ arenas[0].base # NULL) =>
                /\ arenas[0].bump <= FirstHdr(0)
                /\ arenas[0].free_list = NULL)

\* my_alloc.c driven by one thread that holds up to MaxLiveSeq pointers
NextSeq ==
    \E t \in SeqThreads :
        \/ \E n \in ReqSizes \cup {0} :
               /\ Cardinality(live) < MaxLiveSeq
               /\ SeqMallocCall(t, n) /\ Issue /\ UNCHANGED probe
        \/ \E p \in AnyPointers \cup {NULL} :
               SeqFree(t, p) /\ Issue /\ UNCHANGED probe
        \/ Fill(t)

SpecSeq == InitSeq /\ [][NextSeq]_vars

====
